---- MODULE Spec2Model ----
(***************************************************************************)
(* Model of the classification-and-routing engine of bmc-banking-ai:       *)
(*   src/agents/multi_agent_system.py  (Classifier, handlers, orchestrator)*)
(*   src/database/bmc_database.py      (ticket store and interaction log)  *)
(*                                                                         *)
(* Texts the code inspects character by character (the user message, the   *)
(* completion service's answer) are sequences of one-character strings, so *)
(* that upper(), lower(), strip() and the ticket regex are computed.       *)
(* Texts the code only stores, compares or concatenates are TLA+ strings.  *)
(* Python's None is the value None below; str(None) is "None".             *)
(***************************************************************************)
EXTENDS Integers, Sequences, FiniteSets, TLC

(***************************************************************************)
(* Bounds of the model.                                                    *)
(***************************************************************************)
\* cap on the length of the interaction log
MaxLog == 2

\* cap on the length of the interaction log the evaluator is run on
MaxRows == 2

\* cap on the number of rows behind a sampled evaluation
MaxSample == 3

(***************************************************************************)
(* Program constants.                                                      *)
(***************************************************************************)
\* the regex's \d{10}
TicketDigits == 10
\* lower end of random.randint(1000000000, 9999999999)
RandLo == 1000000000

None == "<None>"

(***************************************************************************)
(* Character-level helpers: str.upper, str.lower, str.strip, str(int).     *)
(***************************************************************************)
UpperOf ==
    "a" :> "A" @@ "b" :> "B" @@ "c" :> "C" @@ "d" :> "D" @@ "e" :> "E" @@
    "f" :> "F" @@ "g" :> "G" @@ "h" :> "H" @@ "i" :> "I" @@ "j" :> "J" @@
    "k" :> "K" @@ "l" :> "L" @@ "m" :> "M" @@ "n" :> "N" @@ "o" :> "O" @@
    "p" :> "P" @@ "q" :> "Q" @@ "r" :> "R" @@ "s" :> "S" @@ "t" :> "T" @@
    "u" :> "U" @@ "v" :> "V" @@ "w" :> "W" @@ "x" :> "X" @@ "y" :> "Y" @@
    "z" :> "Z"

LowerOf ==
    "A" :> "a" @@ "B" :> "b" @@ "C" :> "c" @@ "D" :> "d" @@ "E" :> "e" @@
    "F" :> "f" @@ "G" :> "g" @@ "H" :> "h" @@ "I" :> "i" @@ "J" :> "j" @@
    "K" :> "k" @@ "L" :> "l" @@ "M" :> "m" @@ "N" :> "n" @@ "O" :> "o" @@
    "P" :> "p" @@ "Q" :> "q" @@ "R" :> "r" @@ "S" :> "s" @@ "T" :> "t" @@
    "U" :> "u" @@ "V" :> "v" @@ "W" :> "w" @@ "X" :> "x" @@ "Y" :> "y" @@
    "Z" :> "z"

Upper(s) == [i \in 1..Len(s) |-> IF s[i] \in DOMAIN UpperOf THEN UpperOf[s[i]] ELSE s[i]]

Lower(s) == [i \in 1..Len(s) |-> IF s[i] \in DOMAIN LowerOf THEN LowerOf[s[i]] ELSE s[i]]

Whitespace == {" ", "\n", "\t"}

RECURSIVE LStrip(_)
LStrip(s) == IF s # <<>> /\ Head(s) \in Whitespace THEN LStrip(Tail(s)) ELSE s

RECURSIVE RStrip(_)
RStrip(s) ==
    IF s # <<>> /\ s[Len(s)] \in Whitespace THEN RStrip(SubSeq(s, 1, Len(s) - 1)) ELSE s

Strip(s) == RStrip(LStrip(s))

\* the characters of a text, as one string
RECURSIVE Join(_)
Join(s) == IF s = <<>> THEN "" ELSE Head(s) \o Join(Tail(s))

DigitChar == <<"0", "1", "2", "3", "4", "5", "6", "7", "8", "9">>

Digits == {DigitChar[i] : i \in 1..10}

\* str(n) for n >= 0: decimal, no leading zeros
RECURSIVE IntToStr(_)
IntToStr(n) ==
    IF n < 10 THEN DigitChar[n + 1] ELSE IntToStr(n \div 10) \o DigitChar[(n % 10) + 1]

\* what an f-string renders for a value that is a string or None
Fmt(v) == IF v = None THEN "None" ELSE v

(***************************************************************************)
(* The ticket pattern (INC|REQ|CRQ|PBI|RLM)\d{10} and re.search.           *)
(***************************************************************************)
Prefixes ==
    { <<"I", "N", "C">>, <<"R", "E", "Q">>, <<"C", "R", "Q">>,
      <<"P", "B", "I">>, <<"R", "L", "M">> }

\* the pattern matches s at position i
MatchAt(s, i) ==
    /\ i + 2 + TicketDigits <= Len(s)
    /\ SubSeq(s, i, i + 2) \in Prefixes
    /\ \A j \in (i + 3)..(i + 2 + TicketDigits) : s[j] \in Digits

\* variant: the position of the rightmost match
Search_Rightmost(s) ==
    IF \E i \in 1..Len(s) : MatchAt(s, i)
    THEN CHOOSE i \in 1..Len(s) : MatchAt(s, i) /\ \A k \in (i + 1)..Len(s) : ~MatchAt(s, k)
    ELSE 0

\* re.search: the position of the leftmost match, 0 when there is none
Search(s) ==
    IF \E i \in 1..Len(s) : MatchAt(s, i)
    THEN CHOOSE i \in 1..Len(s) : MatchAt(s, i) /\ \A k \in 1..(i - 1) : ~MatchAt(s, k)
    ELSE 0

\* match.group(0)
Group0(s) == Join(SubSeq(s, Search(s), Search(s) + 2 + TicketDigits))

(***************************************************************************)
(* Python dicts are functions from key to value; dict.update is Update.    *)
(* An Optional[Dict] is <<>> (None) or <<d>>.  SQLite stores a Python bool *)
(* as the integer 1 or 0.                                                  *)
(***************************************************************************)
EmptyDict == [k \in {} |-> None]

Update(a, b) == [k \in (DOMAIN a) \cup (DOMAIN b) |-> IF k \in DOMAIN b THEN b[k] ELSE a[k]]

\* variant: the flag is stored inverted
SqlBool_Inverted(b) == IF b THEN 0 ELSE 1

SqlBool(b) == IF b THEN 1 ELSE 0

(***************************************************************************)
(* Inputs.                                                                 *)
(***************************************************************************)
MsgComplaint == <<"b", "a", "d", " ", "c", "a", "r", "d">>

MsgStatusLower ==
    <<"i", "n", "c", "1", "2", "3", "4", "5", "6", "7", "8", "9", "0", "?">>

MsgStatusReq == <<"R", "E", "Q", "1", "0", "0", "0", "0", "0", "0", "0", "0", "0">>

Messages == {MsgComplaint, MsgStatusLower, MsgStatusReq}

CustomerNames == {"Jane Doe"}

\* what the completion service does with one request: it answers with a
\* content (a text, or None), or the client raises
AnsPositive ==
    <<"p", "o", "s", "i", "t", "i", "v", "e", "_", "f", "e", "e", "d", "b", "a", "c", "k">>

AnsNegative ==
    <<" ", "N", "e", "g", "a", "t", "i", "v", "e", "_", "F", "e", "e", "d", "b", "a", "c", "k">>

AnsQuery == <<"Q", "U", "E", "R", "Y", "\n">>

AnsQueryDot == <<"q", "u", "e", "r", "y", ".">>

AnsThanks == <<"T", "h", "a", "n", "k", " ", "y", "o", "u", "!">>

ExcConnection ==
    <<"C", "o", "n", "n", "e", "c", "t", "i", "o", "n", " ", "e", "r", "r", "o", "r", ".">>

\* str(e) of the AttributeError that None.strip() raises
ExcNoneStrip ==
    <<"'", "N", "o", "n", "e", "T", "y", "p", "e", "'", " ", "o", "b", "j", "e", "c", "t",
      " ", "h", "a", "s", " ", "n", "o", " ", "a", "t", "t", "r", "i", "b", "u", "t", "e",
      " ", "'", "s", "t", "r", "i", "p", "'">>

LlmOutcomes ==
    { [kind |-> "content", text |-> AnsPositive],
      [kind |-> "content", text |-> AnsNegative],
      [kind |-> "content", text |-> AnsQuery],
      [kind |-> "content", text |-> AnsQueryDot],
      [kind |-> "content", text |-> AnsThanks],
      [kind |-> "none", text |-> <<>>],
      [kind |-> "raise", text |-> ExcConnection] }

\* answers to the thank-you request
ReplyOutcomes ==
    { [kind |-> "content", text |-> AnsThanks],
      [kind |-> "raise", text |-> ExcConnection] }

\* elapsed times (ms) a completion request reports
ElapsedMs == {40}

\* the values random.randint draws in the model
DrawSet == {RandLo, 1234567890}

\* create_ticket calls made from outside the agents (setup_sample_data, the
\* dashboard's form)
ExternalTickets ==
    { [type |-> "INC", title |-> "Credit Card Blocked",
       description |-> "Card blocked after suspicious activity",
       customer |-> "John Smith", priority |-> "High"] }

\* update_status calls made from outside the agents
StatusUpdates ==
    { [status |-> "In Progress", resolution |-> None],
      [status |-> "Resolved", resolution |-> "Card unblocked after verification"],
      [status |-> "Resolved", resolution |-> None],
      [status |-> "On Hold", resolution |-> None] }

\* the ticket numbers update_status is called with
UpdateTargets == {"INC1234567890"}

(***************************************************************************)
(* State.                                                                  *)
(***************************************************************************)
VARIABLES
    tickets,        \* table tickets: a set of rows
    ai_logs,        \* table ai_logs, in insertion order
    pc,             \* where the running call stands; "idle" between calls
    op,             \* the operation running or last run, "none" at first
    outcome,        \* "none", "running", "returned" or "raised"
    user_input,     \* process_message's user_input; the arguments of a store call
    customer_name,  \* process_message's customer_name
    cls,            \* classification_result
    result,         \* process_message's result
    handled,        \* the dict the handler returned
    agent_path,     \* process_message's agent_path
    gen,            \* the create_ticket call in progress, or the last one
    ret,            \* what the last store call from outside returned
    clock,          \* ms since process_message took start_time
    llmCalls,       \* completion requests made by the running call
    path,           \* agents whose process() the running call has entered
    completion,     \* what the completion service did with the Classifier's request
    replyCompletion, \* what it did with the FeedbackHandler's thank-you request
    llm_response,   \* ClassifierAgent.process's llm_response
    dbFaults,       \* store calls that raised inside the running operation
    appended,       \* the rows the running operation called log_interaction with
    dbCalls,        \* the store methods the agents called in the running operation
    tickets0,       \* tickets when the running operation started
    logs0           \* ai_logs when the running operation started

vars ==
    << tickets, ai_logs, pc, op, outcome, user_input, customer_name, cls, result,
       handled, agent_path, gen, ret, clock, llmCalls, path, completion, llm_response,
       dbFaults, appended, dbCalls, tickets0, logs0, replyCompletion >>

\* what a call is given, and the store as it found it
callIn == << op, user_input, customer_name, tickets0, logs0 >>

\* what the Classifier leaves
classified == << cls, completion, llm_response >>

NoGen ==
    [for |-> "none", type |-> "", title |-> "", description |-> "",
     customer |-> "", priority |-> "", number |-> None, value |-> None]

NoCompletion == [kind |-> "unused", text |-> <<>>]

Init ==
    /\ tickets = {}
    /\ ai_logs = <<>>
    /\ pc = "idle"
    /\ op = "none"
    /\ outcome = "none"
    /\ user_input = <<>>
    /\ customer_name = ""
    /\ cls = EmptyDict
    /\ result = EmptyDict
    /\ handled = EmptyDict
    /\ agent_path = ""
    /\ gen = NoGen
    /\ ret = None
    /\ clock = 0
    /\ llmCalls = 0
    /\ path = <<>>
    /\ completion = NoCompletion
    /\ replyCompletion = NoCompletion
    /\ llm_response = <<>>
    /\ dbFaults = {}
    /\ appended = <<>>
    /\ dbCalls = <<>>
    /\ tickets0 = {}
    /\ logs0 = <<>>

(***************************************************************************)
(* BMCDatabase (src/database/bmc_database.py).  The created_date and       *)
(* timestamp columns are left out: nothing in the agents reads them.       *)
(***************************************************************************)
Numbers(rows) == {r.ticket_number : r \in rows}

\* variant: the existence check answers "no" for every number
ticket_exists_Never(number) == FALSE

ticket_exists(number) == \E r \in tickets : r.ticket_number = number

\* variant: the INSERT leaves the priority to the column default
NewRow_DefaultPriority(number, type, title, description, priority, customer) ==
    [ticket_number |-> number, ticket_type |-> type, title |-> title,
     description |-> description, status |-> "New", priority |-> "Medium",
     customer_name |-> customer, resolution |-> None]

\* the row INSERT INTO tickets writes; status and resolution take the
\* column defaults 'New' and NULL
NewRow(number, type, title, description, priority, customer) ==
    [ticket_number |-> number, ticket_type |-> type, title |-> title,
     description |-> description, status |-> "New", priority |-> priority,
     customer_name |-> customer, resolution |-> None]

\* tickets after create_ticket's INSERT; ticket_number is the PRIMARY KEY,
\* so inserting a number already held raises, like any other store fault
InsertStored(number, dbOk) == dbOk /\ number \notin Numbers(tickets)

\* get_ticket: <<dict>> for a row found, <<>> for None (no row, or the
\* read raised and the bare except returned None)
get_ticket(number, dbOk) ==
    LET rows == {r \in tickets : r.ticket_number = number}
    IN  IF dbOk /\ rows # {}
        THEN LET r == CHOOSE x \in rows : TRUE
             IN  << [number |-> r.ticket_number, type |-> r.ticket_type,
                     title |-> r.title, description |-> r.description,
                     status |-> r.status, priority |-> r.priority,
                     customer |-> r.customer_name, resolution |-> r.resolution] >>
        ELSE <<>>

\* variant: the UPDATE without its WHERE clause
UpdatedTickets_AllRows(number, status, resolution) ==
    { [r EXCEPT !.status = status, !.resolution = resolution] : r \in tickets }

\* the rows UPDATE ... WHERE ticket_number = ? leaves
UpdatedTickets(number, status, resolution) ==
    { IF r.ticket_number = number
      THEN [r EXCEPT !.status = status, !.resolution = resolution]
      ELSE r : r \in tickets }

\* the row log_interaction's INSERT INTO ai_logs writes
LogRow(user_msg, classification, agent, response, ticket_num, success) ==
    [user_message |-> user_msg, classification |-> classification,
     agent_used |-> agent, response |-> response,
     ticket_number |-> ticket_num, success |-> SqlBool(success)]

\* variant: only successful interactions are written
log_interaction_SuccessOnly(user_msg, classification, agent, response, ticket_num, success, dbOk) ==
    IF dbOk /\ success
    THEN Append(ai_logs, LogRow(user_msg, classification, agent, response, ticket_num,
                                success))
    ELSE ai_logs

\* variant: a failed INSERT leaves its row behind
log_interaction_WritesOnFault(user_msg, classification, agent, response, ticket_num, success, dbOk) ==
    Append(ai_logs, LogRow(user_msg, classification, agent, response, ticket_num, success))

\* ai_logs after log_interaction; a failed INSERT is printed and swallowed
log_interaction(user_msg, classification, agent, response, ticket_num, success, dbOk) ==
    IF dbOk
    THEN Append(ai_logs, LogRow(user_msg, classification, agent, response, ticket_num,
                                success))
    ELSE ai_logs

(***************************************************************************)
(* BaseAgent.call_llm and ClassifierAgent.process.                         *)
(* Confidence is in hundredths: 95 is 0.95, 80 is 0.8.                     *)
(***************************************************************************)
ErrorPrefix == <<"E", "r", "r", "o", "r", ":", " ">>

\* variant: call_llm without its try/except, a failure reaches the caller
call_llm_Propagates(o, dt) ==
    [raised |-> o.kind # "content",
     text |-> IF o.kind = "content" THEN Strip(o.text) ELSE <<>>,
     time |-> dt]

\* one request: the text and processing time call_llm returns.  Whatever is
\* raised inside the try block, by the client or by .strip() on a None
\* content, is caught: raised is FALSE in every case.
call_llm(o, dt) ==
    [raised |-> FALSE,
     text |-> CASE o.kind = "content" -> Strip(o.text)
                [] o.kind = "none" -> ErrorPrefix \o ExcNoneStrip
                [] OTHER -> ErrorPrefix \o o.text,
     time |-> dt]

Labels == {"positive_feedback", "negative_feedback", "query"}

\* variant: the pattern is searched in the text as typed
HasTicketPattern_CaseSensitive(text) == Search(text) # 0

HasTicketPattern(text) == Search(Upper(text)) # 0

\* variant: the completion's text is the label, whatever it says
LlmLabel_AsAnswered(response) == Join(Strip(Lower(response)))

\* variant: the completion is compared as it came, not lower-cased
LlmLabel_NoLower(response) ==
    LET classification == Join(Strip(response))
    IN  IF classification \notin Labels THEN "unknown" ELSE classification

\* the label ClassifierAgent.process takes from the completion's text
LlmLabel(response) ==
    LET classification == Join(Strip(Lower(response)))
    IN  IF classification \notin Labels THEN "unknown" ELSE classification

\* variant: a failed request is issued a second time
ClassifierRun_Retries(text, o, dt) ==
    IF HasTicketPattern(text)
    THEN [raised |-> FALSE, requests |-> 0, elapsed |-> 0, llm_response |-> <<>>,
          ret |-> [success |-> TRUE, classification |-> "query", confidence |-> 95,
                   method |-> "rule_based", processing_time_ms |-> 5]]
    ELSE LET r == call_llm(o, dt)
             classification == LlmLabel(r.text)
         IN  [raised |-> r.raised, requests |-> IF o.kind = "content" THEN 1 ELSE 2,
              elapsed |-> r.time, llm_response |-> r.text,
              ret |-> [success |-> classification # "unknown",
                       classification |-> classification, confidence |-> 80,
                       method |-> "llm_based", processing_time_ms |-> r.time]]

\* ClassifierAgent.process: the dict it returns (ret), with the requests it
\* made, the time they took and whether one of them raised
ClassifierRun(text, o, dt) ==
    IF HasTicketPattern(text)
    THEN [raised |-> FALSE, requests |-> 0, elapsed |-> 0, llm_response |-> <<>>,
          ret |-> [success |-> TRUE, classification |-> "query", confidence |-> 95,
                   method |-> "rule_based", processing_time_ms |-> 5]]
    ELSE LET r == call_llm(o, dt)
             classification == LlmLabel(r.text)
         IN  [raised |-> r.raised, requests |-> 1, elapsed |-> r.time,
              llm_response |-> r.text,
              ret |-> [success |-> classification # "unknown",
                       classification |-> classification, confidence |-> 80,
                       method |-> "llm_based", processing_time_ms |-> r.time]]

(***************************************************************************)
(* Replies.                                                                *)
(***************************************************************************)
ApologyReply(name, ticket_number) ==
    "We sincerely apologize for the inconvenience, " \o name \o ". "
        \o "A new incident " \o Fmt(ticket_number) \o " has been created and our team "
        \o "will address this issue promptly."

NotFoundReply(ticket_number) ==
    "Ticket " \o ticket_number \o " not found. Please verify the number."

TypeName(ticket_type) ==
    CASE ticket_type = "INC" -> "Incident"
      [] ticket_type = "REQ" -> "Service Request"
      [] ticket_type = "CRQ" -> "Change Request"
      [] ticket_type = "PBI" -> "Problem"
      [] ticket_type = "RLM" -> "Release"
      [] OTHER -> "Ticket"

\* variant: the 'In Progress' branch tests for 'InProgress'
GenerateStatusResponse_InProgressTypo(ticket) ==
    LET head == "Your " \o TypeName(ticket.type) \o " " \o ticket.number
        titled == head \o " '" \o ticket.title \o "'"
    IN  CASE ticket.status = "New" ->
               titled \o " has been logged and is awaiting assignment."
          [] ticket.status = "InProgress" ->
               titled \o " is currently being worked on by our team."
          [] ticket.status = "Resolved" ->
               titled \o " has been resolved. " \o Fmt(ticket.resolution)
          [] ticket.status = "Closed" ->
               titled \o " has been closed."
          [] OTHER ->
               head \o " is currently '" \o ticket.status \o "'."

\* QueryHandlerAgent._generate_status_response; ticket.get('resolution',
\* default) returns the stored value, the key being always present
GenerateStatusResponse(ticket) ==
    LET head == "Your " \o TypeName(ticket.type) \o " " \o ticket.number
        titled == head \o " '" \o ticket.title \o "'"
    IN  CASE ticket.status = "New" ->
               titled \o " has been logged and is awaiting assignment."
          [] ticket.status = "In Progress" ->
               titled \o " is currently being worked on by our team."
          [] ticket.status = "Resolved" ->
               titled \o " has been resolved. " \o Fmt(ticket.resolution)
          [] ticket.status = "Closed" ->
               titled \o " has been closed."
          [] OTHER ->
               head \o " is currently '" \o ticket.status \o "'."

(***************************************************************************)
(* MultiAgentOrchestrator.process_message, step by step.                   *)
(***************************************************************************)
\* an operation is entered: nothing is left of the one before
Begin(name, text, customer) ==
    /\ op' = name
    /\ user_input' = text
    /\ customer_name' = customer
    /\ cls' = EmptyDict
    /\ result' = EmptyDict
    /\ handled' = EmptyDict
    /\ agent_path' = ""
    /\ clock' = 0
    /\ llmCalls' = 0
    /\ path' = <<>>
    /\ completion' = NoCompletion
    /\ replyCompletion' = NoCompletion
    /\ llm_response' = <<>>
    /\ appended' = <<>>
    /\ dbCalls' = <<>>
    /\ tickets0' = tickets
    /\ logs0' = ai_logs

\* the call is entered: start_time is taken
ProcessMessage(text, name) ==
    /\ pc = "idle"
    /\ Len(ai_logs) < MaxLog
    /\ Begin("process_message", text, name)
    /\ dbFaults' = {}
    /\ outcome' = "running"
    /\ pc' = "classify"
    /\ gen' = NoGen
    /\ ret' = None
    /\ UNCHANGED << tickets, ai_logs >>

\* Step 1: self.classifier.process(user_input)
ClassifierProcess(o, dt) ==
    /\ pc = "classify"
    /\ LET run == ClassifierRun(user_input, o, dt)
       IN  /\ llmCalls' = llmCalls + run.requests
           /\ clock' = clock + run.elapsed
           /\ completion' = IF run.requests = 0 THEN NoCompletion ELSE o
           /\ llm_response' = run.llm_response
           /\ IF run.raised
              THEN /\ pc' = "idle"
                   /\ outcome' = "raised"
                   /\ UNCHANGED cls
              ELSE /\ cls' = run.ret
                   /\ pc' = "route"
                   /\ UNCHANGED outcome
    /\ path' = Append(path, "Classifier")
    /\ UNCHANGED << replyCompletion, tickets, ai_logs, callIn, result, handled, agent_path, gen, ret,
                    dbFaults, appended, dbCalls >>

\* variant: negative feedback is routed to the query handler
HandlerFor_NegativeToQuery(classification) ==
    IF classification = "positive_feedback"
    THEN "FeedbackHandler"
    ELSE IF classification \in {"negative_feedback", "query"} THEN "QueryHandler" ELSE "none"

\* Step 2: the handler the label is routed to, "none" for the defensive
\* else branch
HandlerFor(classification) ==
    IF classification \in {"positive_feedback", "negative_feedback"}
    THEN "FeedbackHandler"
    ELSE IF classification = "query" THEN "QueryHandler" ELSE "none"

AgentPath(handler) == "Classifier → " \o handler

\* variant: the rejection leaves the elapsed time out
RejectedResult_NoTime(total) ==
    [success |-> FALSE,
     response |-> "Unable to understand your message. Please try again."]

\* the dict returned when the classification failed
RejectedResult(total) ==
    [success |-> FALSE,
     response |-> "Unable to understand your message. Please try again.",
     total_processing_time_ms |-> total]

\* the early return on a failed classification, then the routing on the
\* label, down to FeedbackHandlerAgent.process's own branch on it
Dispatch ==
    /\ pc = "route"
    /\ IF ~cls.success
       THEN /\ result' = RejectedResult(clock)
            /\ pc' = "idle"
            /\ outcome' = "returned"
            /\ UNCHANGED << path, agent_path, handled >>
       ELSE IF HandlerFor(cls.classification) = "FeedbackHandler"
       THEN /\ path' = Append(path, "FeedbackHandler")
            /\ agent_path' = AgentPath("FeedbackHandler")
            /\ pc' = CASE cls.classification = "positive_feedback" -> "handle_positive"
                       [] cls.classification = "negative_feedback" -> "handle_negative"
                       [] OTHER -> "merge"
            /\ handled' = IF cls.classification \in {"positive_feedback", "negative_feedback"}
                          THEN handled
                          ELSE [success |-> FALSE, response |-> "Invalid classification"]
            /\ UNCHANGED << result, outcome >>
       ELSE IF HandlerFor(cls.classification) = "QueryHandler"
       THEN /\ path' = Append(path, "QueryHandler")
            /\ agent_path' = AgentPath("QueryHandler")
            /\ pc' = "query_handler"
            /\ UNCHANGED << result, outcome, handled >>
       ELSE /\ result' = [success |-> FALSE,
                          response |-> "Unable to process your request.",
                          total_processing_time_ms |-> clock]
            /\ pc' = "idle"
            /\ outcome' = "returned"
            /\ UNCHANGED << path, agent_path, handled >>
    /\ UNCHANGED << replyCompletion, tickets, ai_logs, callIn, classified, gen, ret, clock, llmCalls,
                    dbFaults, appended, dbCalls >>

\* variant: the result carries a ticket_number key, as the complaint's does
PositiveResult_WithTicket(r) ==
    [success |-> TRUE, response |-> Join(r.text), action |-> "thanked_customer",
     ticket_number |-> None, processing_time_ms |-> r.time]

\* variant: a failed completion is replaced by a canned thank-you
PositiveResult_Canned(r) ==
    [success |-> TRUE,
     response |-> IF SubSeq(r.text, 1, Len(ErrorPrefix)) = ErrorPrefix
                  THEN "Thank you for your feedback!"
                  ELSE Join(r.text),
     action |-> "thanked_customer", processing_time_ms |-> r.time]

\* FeedbackHandlerAgent._handle_positive
PositiveResult(r) ==
    [success |-> TRUE, response |-> Join(r.text), action |-> "thanked_customer",
     processing_time_ms |-> r.time]

HandlePositive(o, dt, logOk) ==
    /\ pc = "handle_positive"
    /\ llmCalls' = llmCalls + 1
    /\ clock' = clock + dt
    /\ replyCompletion' = o
    /\ LET r == call_llm(o, dt)
       IN  IF r.raised
           THEN /\ pc' = "idle"
                /\ outcome' = "raised"
                /\ UNCHANGED << ai_logs, handled, dbFaults, appended, dbCalls >>
           ELSE /\ ai_logs' = log_interaction(Join(user_input), "positive_feedback",
                                              "FeedbackHandler", Join(r.text), None,
                                              TRUE, logOk)
                /\ appended' = Append(appended,
                                      LogRow(Join(user_input), "positive_feedback",
                                             "FeedbackHandler", Join(r.text), None, TRUE))
                /\ dbCalls' = Append(dbCalls, "log_interaction")
                /\ dbFaults' = IF logOk THEN dbFaults ELSE dbFaults \cup {"log"}
                /\ handled' = PositiveResult(r)
                /\ pc' = "merge"
                /\ UNCHANGED outcome
    /\ UNCHANGED << tickets, callIn, classified, result, agent_path, gen, ret, path >>

\* variant: title and description passed in each other's place
ComplaintTicket_Swapped(text, name) ==
    [for |-> "negative", type |-> "INC", title |-> text,
     description |-> "Customer Complaint", customer |-> name, priority |-> "High",
     number |-> None, value |-> None]

\* the ticket _handle_negative asks create_ticket for
ComplaintTicket(text, name) ==
    [for |-> "negative", type |-> "INC", title |-> "Customer Complaint",
     description |-> text, customer |-> name, priority |-> "High",
     number |-> None, value |-> None]

\* FeedbackHandlerAgent._handle_negative enters self.db.create_ticket
HandleNegative ==
    /\ pc = "handle_negative"
    /\ gen' = ComplaintTicket(Join(user_input), customer_name)
    /\ dbCalls' = Append(dbCalls, "create_ticket")
    /\ pc' = "generate"
    /\ UNCHANGED << replyCompletion, tickets, ai_logs, callIn, classified, outcome, result, handled,
                    agent_path, ret, clock, llmCalls, path, dbFaults, appended >>

\* variant: a dash between the prefix and the digits
TicketNumber_Dashed(type, n) == type \o "-" \o IntToStr(n)

\* f"{ticket_type}{random.randint(...)}" for the value n drawn
TicketNumber(type, n) == type \o IntToStr(n)

\* one turn of generate_ticket_number's loop: draw, then ticket_exists.
\* ticket_exists has no handler: when its read raises, so does the caller.
GenerateTicketNumber(n, dbOk) ==
    /\ pc = "generate"
    /\ IF ~dbOk
       THEN /\ pc' = "idle"
            /\ outcome' = "raised"
            /\ dbFaults' = dbFaults \cup {"exists"}
            /\ UNCHANGED gen
       ELSE IF ticket_exists(TicketNumber(gen.type, n))
       THEN UNCHANGED << pc, outcome, gen, dbFaults >>
       ELSE /\ gen' = [gen EXCEPT !.number = TicketNumber(gen.type, n)]
            /\ pc' = "insert"
            /\ UNCHANGED << outcome, dbFaults >>
    /\ UNCHANGED << replyCompletion, tickets, ai_logs, callIn, classified, result, handled, agent_path,
                    ret, clock, llmCalls, path, appended, dbCalls >>

\* create_ticket's INSERT and return: the number, or None when it raised
CreateTicketInsert(dbOk) ==
    /\ pc = "insert"
    /\ LET stored == InsertStored(gen.number, dbOk)
           value == IF stored THEN gen.number ELSE None
       IN  /\ tickets' = IF stored
                         THEN tickets \cup
                              {NewRow(gen.number, gen.type, gen.title, gen.description,
                                      gen.priority, gen.customer)}
                         ELSE tickets
           /\ dbFaults' = IF stored THEN dbFaults ELSE dbFaults \cup {"insert"}
           /\ gen' = [gen EXCEPT !.value = value]
           /\ IF gen.for = "negative"
              THEN /\ pc' = "negative_reply"
                   /\ UNCHANGED << ret, outcome >>
              ELSE /\ pc' = "idle"
                   /\ ret' = value
                   /\ outcome' = "returned"
    /\ UNCHANGED << replyCompletion, ai_logs, callIn, classified, result, handled, agent_path, clock,
                    llmCalls, path, appended, dbCalls >>

\* the rest of _handle_negative: the reply, the log entry, the result
NegativeResult(name, ticket_number) ==
    [success |-> TRUE, response |-> ApologyReply(name, ticket_number),
     action |-> "incident_created", ticket_number |-> ticket_number,
     processing_time_ms |-> 100]

HandleNegativeReply(logOk) ==
    /\ pc = "negative_reply"
    /\ LET res == NegativeResult(customer_name, gen.value)
       IN  /\ ai_logs' = log_interaction(Join(user_input), "negative_feedback",
                                         "FeedbackHandler", res.response, gen.value,
                                         TRUE, logOk)
           /\ appended' = Append(appended,
                                 LogRow(Join(user_input), "negative_feedback",
                                        "FeedbackHandler", res.response, gen.value, TRUE))
           /\ dbCalls' = Append(dbCalls, "log_interaction")
           /\ handled' = res
    /\ dbFaults' = IF logOk THEN dbFaults ELSE dbFaults \cup {"log"}
    /\ pc' = "merge"
    /\ UNCHANGED << replyCompletion, tickets, callIn, classified, outcome, result, agent_path, gen, ret,
                    clock, llmCalls, path >>

\* variant: the number is taken from the text as typed
ExtractTicket_AsTyped(text) == Join(SubSeq(text, Search(Upper(text)), Search(Upper(text)) + 2 + TicketDigits))

\* the ticket number QueryHandlerAgent.process takes from a text the
\* pattern matches: group(0) of the search in user_input.upper()
ExtractTicket(text) == Group0(Upper(text))

\* variant: the prompt for a ticket number is logged like the other replies
QueryRun_LogsPrompt(text, getOk) ==
    IF Search(Upper(text)) = 0
    THEN [ret |-> [success |-> FALSE,
                   response |-> "Please provide a valid ticket number (INC/REQ/CRQ/PBI/RLM + 10 digits)",
                   processing_time_ms |-> 5],
          reads |-> FALSE,
          log |-> << [response |-> "Please provide a valid ticket number (INC/REQ/CRQ/PBI/RLM + 10 digits)",
                      ticket_num |-> None, success |-> FALSE] >>]
    ELSE LET ticket_number == ExtractTicket(text)
             ticket_details == get_ticket(ticket_number, getOk)
         IN  IF ticket_details = <<>>
             THEN [ret |-> [success |-> FALSE,
                            response |-> NotFoundReply(ticket_number),
                            ticket_number |-> ticket_number,
                            processing_time_ms |-> 50],
                   reads |-> TRUE,
                   log |-> << [response |-> NotFoundReply(ticket_number),
                               ticket_num |-> ticket_number, success |-> FALSE] >>]
             ELSE LET response == GenerateStatusResponse(ticket_details[1])
                  IN  [ret |-> [success |-> TRUE, response |-> response,
                                ticket_number |-> ticket_number,
                                ticket_details |-> ticket_details[1],
                                processing_time_ms |-> 75],
                       reads |-> TRUE,
                       log |-> << [response |-> response, ticket_num |-> ticket_number,
                                   success |-> TRUE] >>]

\* QueryHandlerAgent.process: the dict it returns (ret), whether it read
\* the store (reads), and the log entry it appends (<<>> when none)
QueryRun(text, getOk) ==
    IF Search(Upper(text)) = 0
    THEN [ret |-> [success |-> FALSE,
                   response |-> "Please provide a valid ticket number (INC/REQ/CRQ/PBI/RLM + 10 digits)",
                   processing_time_ms |-> 5],
          reads |-> FALSE,
          log |-> <<>>]
    ELSE LET ticket_number == ExtractTicket(text)
             ticket_details == get_ticket(ticket_number, getOk)
         IN  IF ticket_details = <<>>
             THEN [ret |-> [success |-> FALSE,
                            response |-> NotFoundReply(ticket_number),
                            ticket_number |-> ticket_number,
                            processing_time_ms |-> 50],
                   reads |-> TRUE,
                   log |-> << [response |-> NotFoundReply(ticket_number),
                               ticket_num |-> ticket_number, success |-> FALSE] >>]
             ELSE LET response == GenerateStatusResponse(ticket_details[1])
                  IN  [ret |-> [success |-> TRUE, response |-> response,
                                ticket_number |-> ticket_number,
                                ticket_details |-> ticket_details[1],
                                processing_time_ms |-> 75],
                       reads |-> TRUE,
                       log |-> << [response |-> response, ticket_num |-> ticket_number,
                                   success |-> TRUE] >>]

QueryHandlerProcess(getOk, logOk) ==
    /\ pc = "query_handler"
    /\ LET run == QueryRun(user_input, getOk)
       IN  /\ handled' = run.ret
           /\ ai_logs' = IF run.log = <<>>
                         THEN ai_logs
                         ELSE log_interaction(Join(user_input), "query", "QueryHandler",
                                              run.log[1].response, run.log[1].ticket_num,
                                              run.log[1].success, logOk)
           /\ appended' = IF run.log = <<>>
                          THEN appended
                          ELSE Append(appended,
                                      LogRow(Join(user_input), "query", "QueryHandler",
                                             run.log[1].response, run.log[1].ticket_num,
                                             run.log[1].success))
           /\ dbCalls' = dbCalls
                           \o (IF run.reads THEN <<"get_ticket">> ELSE <<>>)
                           \o (IF run.log # <<>> THEN <<"log_interaction">> ELSE <<>>)
           /\ dbFaults' = dbFaults
                            \cup (IF run.reads /\ ~getOk THEN {"get"} ELSE {})
                            \cup (IF run.log # <<>> /\ ~logOk THEN {"log"} ELSE {})
    /\ pc' = "merge"
    /\ UNCHANGED << replyCompletion, tickets, callIn, classified, outcome, result, agent_path, gen, ret,
                    clock, llmCalls, path >>

\* result.update(...) with the orchestration metadata
Merged(res, classification_result, agentPath, total) ==
    Update(res, [classification |-> classification_result.classification,
                 classification_confidence |-> classification_result.confidence,
                 agent_path |-> agentPath,
                 total_processing_time_ms |-> total])

\* the metadata is added and the result returned
Merge ==
    /\ pc = "merge"
    /\ result' = Merged(handled, cls, agent_path, clock)
    /\ pc' = "idle"
    /\ outcome' = "returned"
    /\ UNCHANGED << replyCompletion, tickets, ai_logs, callIn, classified, handled, agent_path, gen, ret,
                    clock, llmCalls, path, dbFaults, appended, dbCalls >>

(***************************************************************************)
(* Store calls made from outside the agents.                               *)
(***************************************************************************)
CreateTicket(t) ==
    /\ pc = "idle"
    /\ Begin("create_ticket", <<>>, "")
    /\ dbFaults' = {}
    /\ outcome' = "running"
    /\ gen' = [for |-> "external", type |-> t.type, title |-> t.title,
               description |-> t.description, customer |-> t.customer,
               priority |-> t.priority, number |-> None, value |-> None]
    /\ pc' = "generate"
    /\ ret' = None
    /\ UNCHANGED << tickets, ai_logs >>

UpdateStatus(number, u, dbOk) ==
    /\ pc = "idle"
    /\ Begin("update_status", <<number, u.status, u.resolution>>, "")
    /\ outcome' = "returned"
    /\ tickets' = IF dbOk THEN UpdatedTickets(number, u.status, u.resolution) ELSE tickets
    /\ dbFaults' = IF dbOk THEN {} ELSE {"update"}
    /\ ret' = (dbOk /\ ticket_exists(number))
    /\ gen' = NoGen
    /\ pc' = "idle"
    /\ UNCHANGED ai_logs

Next ==
    \/ \E text \in Messages, name \in CustomerNames : ProcessMessage(text, name)
    \/ \E o \in LlmOutcomes, dt \in ElapsedMs : ClassifierProcess(o, dt)
    \/ Dispatch
    \/ \E o \in ReplyOutcomes, dt \in ElapsedMs, logOk \in BOOLEAN :
          HandlePositive(o, dt, logOk)
    \/ HandleNegative
    \/ \E n \in DrawSet, dbOk \in BOOLEAN : GenerateTicketNumber(n, dbOk)
    \/ \E dbOk \in BOOLEAN : CreateTicketInsert(dbOk)
    \/ \E logOk \in BOOLEAN : HandleNegativeReply(logOk)
    \/ \E getOk \in BOOLEAN, logOk \in BOOLEAN : QueryHandlerProcess(getOk, logOk)
    \/ Merge
    \/ \E t \in ExternalTickets : CreateTicket(t)
    \/ \E number \in UpdateTargets, u \in StatusUpdates, dbOk \in BOOLEAN :
          UpdateStatus(number, u, dbOk)

Spec == Init /\ [][Next]_vars

(***************************************************************************)
(* The same call over a wider set of texts, each processed on a fresh      *)
(* store: what precedes a candidate reference, its prefix, its run of      *)
(* digits, and what follows.                                               *)
(***************************************************************************)
TextLeads ==
    { <<>>, <<"s", "e", "e", " ">>, <<"x">>, <<"R", "L", "M">> }

TextHeads ==
    { <<"I", "N", "C">>, <<"R", "E", "Q">>, <<"C", "R", "Q">>, <<"P", "B", "I">>,
      <<"R", "L", "M">>, <<"i", "n", "c">>, <<"R", "e", "q">>, <<"A", "B", "C">>,
      <<"I", "N">> }

TextDigitRuns ==
    { <<"1", "2", "3", "4", "5", "6", "7", "8", "9">>,
      <<"1", "2", "3", "4", "5", "6", "7", "8", "9", "0">>,
      <<"1", "2", "3", "4", "5", "6", "7", "8", "9", "0", "1">> }

TextTails ==
    { <<>>, <<"?">>, <<"a">>,
      <<" ", "r", "e", "q", "0", "0", "0", "0", "0", "0", "0", "0", "0", "1">> }

Texts ==
    { l \o h \o d \o t : l \in TextLeads, h \in TextHeads, d \in TextDigitRuns,
                          t \in TextTails }

\* process_message on a store nothing was written to yet
ProcessText(text, name) ==
    /\ tickets = {}
    /\ ai_logs = <<>>
    /\ ProcessMessage(text, name)

TextNext ==
    \/ \E text \in Texts, name \in CustomerNames : ProcessText(text, name)
    \/ \E o \in LlmOutcomes, dt \in ElapsedMs : ClassifierProcess(o, dt)
    \/ Dispatch
    \/ \E o \in ReplyOutcomes, dt \in ElapsedMs, logOk \in BOOLEAN :
          HandlePositive(o, dt, logOk)
    \/ HandleNegative
    \/ \E n \in DrawSet, dbOk \in BOOLEAN : GenerateTicketNumber(n, dbOk)
    \/ \E dbOk \in BOOLEAN : CreateTicketInsert(dbOk)
    \/ \E logOk \in BOOLEAN : HandleNegativeReply(logOk)
    \/ \E getOk \in BOOLEAN, logOk \in BOOLEAN : QueryHandlerProcess(getOk, logOk)
    \/ Merge

TextSpec == Init /\ [][TextNext]_vars

(***************************************************************************)
(* ModelEvaluator (src/evaluation/model_evaluator.py).  A percentage the   *)
(* code computes as (part / total) * 100 in floating point is the exact    *)
(* fraction here, in lowest terms.                                         *)
(***************************************************************************)
RECURSIVE GCD(_, _)
GCD(a, b) == IF b = 0 THEN a ELSE GCD(b, a % b)

Frac(n, d) == LET g == GCD(n, d) IN [num |-> n \div g, den |-> d \div g]

Percentage(part, total) == Frac(part * 100, total)

Zero == Frac(0, 1)

\* a < b, a >= b for fractions
Less(a, b) == a.num * b.den < b.num * a.den

AtLeast(a, b) == ~Less(a, b)

\* (a + b + c) / 3
Mean3(a, b, c) ==
    Frac(a.num * b.den * c.den + b.num * a.den * c.den + c.num * a.den * b.den,
         3 * a.den * b.den * c.den)

\* dict.get(key, default)
GetOr(d, key, default) == IF key \in DOMAIN d THEN d[key] ELSE default

\* the characters of a stored text; str.lower and the `in` test on it
Chars(str) == [i \in 1..Len(str) |-> SubSeq(str, i, i)]

LowerStr(str) == Join(Lower(Chars(str)))

Contains(sub, str) ==
    \E i \in 1..(Len(str) - Len(sub) + 1) : SubSeq(str, i, i + Len(sub) - 1) = sub

\* the number of positions of a sequence at which Test holds
CountIf(rows, Test(_)) == Cardinality({i \in 1..Len(rows) : Test(rows[i])})

RECURSIVE Sum(_)
Sum(ns) == IF ns = <<>> THEN 0 ELSE Head(ns) + Sum(Tail(ns))

\* the columns of table ai_logs
LogColumns ==
    {"id", "user_message", "classification", "agent_used", "response",
     "ticket_number", "success", "timestamp"}

\* self.test_cases
TestCases ==
    << [message |->
        <<"T", "h", "a", "n", "k", " ", "y", "o", "u", " ", "f", "o", "r",
          " ", "s", "o", "l", "v", "i", "n", "g", " ", "m", "y", " ", "i",
          "s", "s", "u", "e", "!">>,
         expected |-> "positive_feedback", category |-> "gratitude"],
       [message |->
        <<"G", "r", "e", "a", "t", " ", "s", "e", "r", "v", "i", "c", "e",
          " ", "f", "r", "o", "m", " ", "y", "o", "u", "r", " ", "t", "e",
          "a", "m", "!">>,
         expected |-> "positive_feedback", category |-> "praise"],
       [message |->
        <<"M", "y", " ", "c", "a", "r", "d", " ", "i", "s", " ", "s", "t",
          "i", "l", "l", " ", "n", "o", "t", " ", "w", "o", "r", "k", "i",
          "n", "g">>,
         expected |-> "negative_feedback", category |-> "complaint"],
       [message |->
        <<"V", "e", "r", "y", " ", "d", "i", "s", "a", "p", "p", "o", "i",
          "n", "t", "e", "d", " ", "w", "i", "t", "h", " ", "t", "h", "e",
          " ", "d", "e", "l", "a", "y">>,
         expected |-> "negative_feedback", category |-> "dissatisfaction"],
       [message |->
        <<"W", "h", "a", "t", "'", "s", " ", "t", "h", "e", " ", "s", "t",
          "a", "t", "u", "s", " ", "o", "f", " ", "I", "N", "C", "1", "2",
          "3", "4", "5", "6", "7", "8", "9", "0", "?">>,
         expected |-> "query", category |-> "status_inquiry"],
       [message |->
        <<"C", "a", "n", " ", "y", "o", "u", " ", "c", "h", "e", "c", "k",
          " ", "t", "i", "c", "k", "e", "t", " ", "R", "E", "Q", "0", "9",
          "8", "7", "6", "5", "4", "3", "2", "1", "?">>,
         expected |-> "query", category |-> "ticket_lookup"],
       [message |->
        <<"P", "l", "e", "a", "s", "e", " ", "h", "e", "l", "p", " ", "m",
          "e", " ", "w", "i", "t", "h", " ", "m", "y", " ", "a", "c", "c",
          "o", "u", "n", "t">>,
         expected |-> "query", category |-> "help_request"],
       [message |->
        <<"T", "h", "a", "n", "k", "s", " ", "f", "o", "r", " ", "t", "h",
          "e", " ", "q", "u", "i", "c", "k", " ", "r", "e", "s", "o", "l",
          "u", "t", "i", "o", "n", "!">>,
         expected |-> "positive_feedback", category |-> "appreciation"],
       [message |->
        <<"T", "h", "i", "s", " ", "i", "s", " ", "t", "a", "k", "i", "n",
          "g", " ", "t", "o", "o", " ", "l", "o", "n", "g">>,
         expected |-> "negative_feedback", category |-> "frustration"],
       [message |->
        <<"S", "t", "a", "t", "u", "s", " ", "o", "f", " ", "P", "B", "I",
          "5", "5", "5", "5", "5", "5", "5", "5", "5", "5", "?">>,
         expected |-> "query", category |-> "problem_inquiry"] >>

\* the completion service's answers to one run over the test cases, one per
\* case (unused for a case the rule classifies): the expected label for the
\* first j cases the model is asked about, a failure for the others
ExpectedAnswer(label) ==
    [kind |-> "content",
     text |-> CASE label = "positive_feedback" -> AnsPositive
                [] label = "negative_feedback" -> AnsNegative
                [] OTHER -> AnsQuery]

AnswersRight(j) ==
    [i \in 1..Len(TestCases) |->
        IF Cardinality({k \in 1..i : ~HasTicketPattern(TestCases[k].message)}) <= j
        THEN ExpectedAnswer(TestCases[i].expected)
        ELSE [kind |-> "raise", text |-> ExcConnection]]

AnswersAllQuery == [i \in 1..Len(TestCases) |-> [kind |-> "content", text |-> AnsQuery]]

CorpusAnswers == {AnswersRight(j) : j \in 0..7} \cup {AnswersAllQuery}

\* evaluate_classification_accuracy: the report (without detailed_results
\* and category_performance, which nothing reads) and the requests made
ClassificationRun(answers, dt) ==
    LET run(i) == ClassifierRun(TestCases[i].message, answers[i], dt)
        actual(i) == GetOr(run(i).ret, "classification", "unknown")
        correct == Cardinality({i \in 1..Len(TestCases) :
                                   actual(i) = TestCases[i].expected})
    IN  [requests |-> Cardinality({i \in 1..Len(TestCases) : run(i).requests = 1}),
         ret |-> [total_tests |-> Len(TestCases),
                  correct_classifications |-> correct,
                  accuracy_percentage |-> Percentage(correct, Len(TestCases))]]

\* ORDER BY timestamp DESC LIMIT n
MostRecent(rows, n) ==
    [i \in 1..(IF Len(rows) < n THEN Len(rows) ELSE n) |-> rows[Len(rows) - i + 1]]

\* the columns evaluate_response_quality selects
QualityColumns ==
    {"user_message", "classification", "response_generated", "success", "agent_used"}

RecentLimit == 50

EmpathyKeywords == {"apologize", "sorry", "thank", "appreciate", "understand", "delighted"}

\* `if success`, `if success and response` on a row read back
Successful(row) == row.success # 0

Scored(row) == Successful(row) /\ row.response # None /\ row.response # ""

EmpathyOf(row) ==
    IF Scored(row)
    THEN Cardinality({w \in EmpathyKeywords : Contains(w, LowerStr(row.response))})
    ELSE 0

\* evaluate_response_quality past the SELECT, on the rows read.  Of the
\* three quality scores only empathy_score, the one that is read back, is
\* computed.
QualityReport(interactions) ==
    IF interactions = <<>>
    THEN [message |-> "No interactions found for evaluation"]
    ELSE LET successful_interactions == CountIf(interactions, Successful)
             agents == {interactions[i].agent_used : i \in 1..Len(interactions)}
             labels == {interactions[i].classification : i \in 1..Len(interactions)}
             of(a) == SelectSeq(interactions, LAMBDA r : r.agent_used = a)
         IN  [total_interactions |-> Len(interactions),
              success_rate |-> Percentage(successful_interactions, Len(interactions)),
              response_quality_scores |->
                 [empathy_score |->
                     IF successful_interactions > 0
                     THEN Frac(Sum([i \in 1..Len(interactions) |->
                                        EmpathyOf(interactions[i])]),
                               successful_interactions)
                     ELSE Zero],
              agent_performance |->
                 [a \in agents |->
                     [success_rate |-> Percentage(CountIf(of(a), Successful), Len(of(a))),
                      total_interactions |-> Len(of(a))]],
              classification_distribution |->
                 [c \in labels |->
                     CountIf(interactions, LAMBDA r : r.classification = c)]]

\* evaluate_response_quality: a SELECT naming a column the table does not
\* have raises sqlite3.OperationalError, which nothing catches
QualityRun(rows) ==
    IF ~(QualityColumns \subseteq LogColumns)
    THEN [raised |-> TRUE, ret |-> EmptyDict]
    ELSE [raised |-> FALSE, ret |-> QualityReport(MostRecent(rows, RecentLimit))]

\* WHERE classification IS NOT NULL AND agent_used IS NOT NULL
HasLabelAndHandler(row) == row.classification # None /\ row.agent_used # None

RoutingData(rows) == SelectSeq(rows, HasLabelAndHandler)

\* variant: the expected mapping without its entry for 'query'
expected_routing_NoQuery ==
    [positive_feedback |-> "FeedbackHandler", negative_feedback |-> "FeedbackHandler"]

expected_routing ==
    [positive_feedback |-> "FeedbackHandler", negative_feedback |-> "FeedbackHandler",
     query |-> "QueryHandler"]

\* variant: the handler must be the expected one, not merely contain its name
CorrectlyRouted_Exact(row) ==
    /\ row.classification \in DOMAIN expected_routing
    /\ row.agent_used = expected_routing[row.classification]

CorrectlyRouted(row) ==
    /\ row.classification \in DOMAIN expected_routing
    /\ Contains(expected_routing[row.classification], row.agent_used)

\* evaluate_agent_routing_success on the rows selected
RoutingReport(routing_data) ==
    IF routing_data = <<>>
    THEN [message |-> "No routing data available"]
    ELSE LET labels == {routing_data[i].classification : i \in 1..Len(routing_data)}
             agentsOf(c) == {routing_data[i].agent_used :
                                i \in {k \in 1..Len(routing_data) :
                                          routing_data[k].classification = c}}
             cell(c, a) == SelectSeq(routing_data,
                                     LAMBDA r : r.classification = c /\ r.agent_used = a)
             correct_routings == CountIf(routing_data, CorrectlyRouted)
         IN  [total_routings |-> Len(routing_data),
              correct_routings |-> correct_routings,
              routing_accuracy |-> Percentage(correct_routings, Len(routing_data)),
              routing_matrix |->
                 [c \in labels |->
                     [a \in agentsOf(c) |->
                         [count |-> Len(cell(c, a)),
                          successful |-> CountIf(cell(c, a), Successful)]]]]

\* variant: the top grade needs a score above 90
_get_grade_Strict(score) ==
    IF Less(Frac(90, 1), score) THEN "A - Excellent"
    ELSE IF AtLeast(score, Frac(80, 1)) THEN "B - Good"
    ELSE IF AtLeast(score, Frac(70, 1)) THEN "C - Satisfactory"
    ELSE IF AtLeast(score, Frac(60, 1)) THEN "D - Needs Improvement"
    ELSE "F - Poor"

_get_grade(score) ==
    IF AtLeast(score, Frac(90, 1)) THEN "A - Excellent"
    ELSE IF AtLeast(score, Frac(80, 1)) THEN "B - Good"
    ELSE IF AtLeast(score, Frac(70, 1)) THEN "C - Satisfactory"
    ELSE IF AtLeast(score, Frac(60, 1)) THEN "D - Needs Improvement"
    ELSE "F - Poor"

\* _get_recommendations, once response_quality_scores was found
_get_recommendations(ce, rq, ar) ==
    LET first == IF Less(ce.accuracy_percentage, Frac(85, 1))
                 THEN <<"Improve classification model with more training examples">>
                 ELSE <<>>
        second == IF Less(rq.response_quality_scores.empathy_score, Frac(1, 2))
                  THEN <<"Enhance response templates with more empathetic language">>
                  ELSE <<>>
        third == IF Less(GetOr(ar, "routing_accuracy", Zero), Frac(90, 1))
                 THEN <<"Review agent routing logic for edge cases">>
                 ELSE <<>>
        recommendations == first \o second \o third
    IN  IF recommendations = <<>>
        THEN <<"System performing well - continue monitoring">>
        ELSE recommendations

OverallScore(ce, rq, ar) ==
    Mean3(ce.accuracy_percentage, GetOr(rq, "success_rate", Zero),
          GetOr(ar, "routing_accuracy", Zero))

\* generate_comprehensive_report from the three evaluations on (the
\* timestamp is left out); response_quality["response_quality_scores"]
\* raises KeyError on a dict without that key
HealthRun(ce, rq, ar) ==
    IF "response_quality_scores" \notin DOMAIN rq
    THEN [raised |-> TRUE, ret |-> EmptyDict]
    ELSE [raised |-> FALSE,
          ret |-> [classification_evaluation |-> ce,
                   response_quality_evaluation |-> rq,
                   agent_routing_evaluation |-> ar,
                   overall_system_health |->
                      [score |-> OverallScore(ce, rq, ar),
                       grade |-> _get_grade(OverallScore(ce, rq, ar)),
                       recommendations |-> _get_recommendations(ce, rq, ar)]]]

\* generate_comprehensive_report: the three evaluations in turn, the first
\* that raises ending the call
ReportRun(rows, answers, dt) ==
    LET ce == ClassificationRun(answers, dt)
        rq == QualityRun(rows)
    IN  IF rq.raised
        THEN [raised |-> TRUE, requests |-> ce.requests, ret |-> EmptyDict,
              evaluations |-> [classification_evaluation |-> ce.ret]]
        ELSE LET ar == RoutingReport(RoutingData(rows))
                 run == HealthRun(ce.ret, rq.ret, ar)
             IN  [raised |-> run.raised, requests |-> ce.requests, ret |-> run.ret,
                  evaluations |-> [classification_evaluation |-> ce.ret,
                                   response_quality_evaluation |-> rq.ret,
                                   agent_routing_evaluation |-> ar]]

\* rows other code has logged before the evaluator runs: routed as the
\* table expects, misrouted, under a label outside the table, without a
\* label or a handler, and by a handler whose name contains the expected one
EvalRows ==
    {LogRow("Thank you for solving my issue!", "positive_feedback", "FeedbackHandler",
            "Thank you for your kind words, Jane Doe!", None, TRUE),
     LogRow("My card is still not working", "negative_feedback", "FeedbackHandler",
            "We apologize for the inconvenience.", "INC1234567890", TRUE),
     LogRow("Status of PBI5555555555?", "query", "QueryHandler",
            "Ticket PBI5555555555 not found.", "PBI5555555555", FALSE),
     LogRow("Please help me with my account", "query", "FeedbackHandler",
            "Thank you for your kind words, Jane Doe!", None, TRUE),
     LogRow("bad card", "unknown", "QueryHandler", "", None, FALSE),
     LogRow("bad card", None, "QueryHandler", "", None, TRUE),
     LogRow("bad card", "query", None, "", None, TRUE),
     LogRow("REQ1000000000", "query", "BackupQueryHandler", "", "REQ1000000000", FALSE)}

\* answer runs the evaluator is driven with
EvalAnswers == {AnswersRight(0), AnswersRight(7), AnswersAllQuery}

\* BMCDatabase.log_interaction called by other code
LogInteraction(row, dbOk) ==
    /\ pc = "idle"
    /\ Len(ai_logs) < MaxRows
    /\ Begin("log_interaction", <<>>, "")
    /\ ai_logs' = IF dbOk THEN Append(ai_logs, row) ELSE ai_logs
    /\ dbFaults' = IF dbOk THEN {} ELSE {"log"}
    /\ outcome' = "returned"
    /\ UNCHANGED << tickets, pc, gen, ret >>

\* a call of the evaluator from start to end: it reads the store and
\* leaves it as it was
Evaluated(name, raised, requests, evaluations, report) ==
    /\ op' = name
    /\ outcome' = IF raised THEN "raised" ELSE "returned"
    /\ llmCalls' = requests
    /\ handled' = evaluations
    /\ result' = report
    /\ tickets0' = tickets
    /\ logs0' = ai_logs
    /\ user_input' = <<>>
    /\ customer_name' = ""
    /\ cls' = EmptyDict
    /\ agent_path' = ""
    /\ clock' = 0
    /\ path' = <<>>
    /\ completion' = NoCompletion
    /\ replyCompletion' = NoCompletion
    /\ llm_response' = <<>>
    /\ appended' = <<>>
    /\ dbCalls' = <<>>
    /\ dbFaults' = {}
    /\ UNCHANGED << tickets, ai_logs, pc, gen, ret >>

EvaluateClassificationAccuracy(answers, dt) ==
    /\ pc = "idle"
    /\ LET run == ClassificationRun(answers, dt)
       IN  Evaluated("evaluate_classification_accuracy", FALSE, run.requests,
                     EmptyDict, run.ret)

EvaluateResponseQuality ==
    /\ pc = "idle"
    /\ LET run == QualityRun(ai_logs)
       IN  Evaluated("evaluate_response_quality", run.raised, 0, EmptyDict, run.ret)

EvaluateAgentRoutingSuccess ==
    /\ pc = "idle"
    /\ Evaluated("evaluate_agent_routing_success", FALSE, 0, EmptyDict,
                 RoutingReport(RoutingData(ai_logs)))

GenerateComprehensiveReport(answers, dt) ==
    /\ pc = "idle"
    /\ LET run == ReportRun(ai_logs, answers, dt)
       IN  Evaluated("generate_comprehensive_report", run.raised, run.requests,
                     run.evaluations, run.ret)

EvalNext ==
    \/ \E row \in EvalRows, dbOk \in BOOLEAN : LogInteraction(row, dbOk)
    \/ \E answers \in EvalAnswers, dt \in ElapsedMs :
          EvaluateClassificationAccuracy(answers, dt)
    \/ EvaluateResponseQuality
    \/ EvaluateAgentRoutingSuccess
    \/ \E answers \in EvalAnswers, dt \in ElapsedMs :
          GenerateComprehensiveReport(answers, dt)

EvalSpec == Init /\ [][EvalNext]_vars

(***************************************************************************)
(* The aggregation at the end of generate_comprehensive_report (lines      *)
(* 228-241) applied to evaluations drawn from what the three evaluation    *)
(* methods can return.                                                     *)
(***************************************************************************)
SampleLogs(rows) == UNION {[1..n -> rows] : n \in 0..MaxSample}

\* logs of a successful and a failed interaction
QualitySamples ==
    {QualityReport(l) :
        l \in SampleLogs({r \in EvalRows : r.classification = "positive_feedback"
                                            \/ r.ticket_number = "PBI5555555555"})}

\* logs of an interaction routed as expected and a misrouted one
RoutingSamples ==
    {RoutingReport(RoutingData(l)) :
        l \in SampleLogs({r \in EvalRows : r.agent_used = "FeedbackHandler"
                                            /\ r.ticket_number = None})}

ClassificationSamples ==
    {ClassificationRun(a, dt).ret : a \in CorpusAnswers, dt \in ElapsedMs}

ScoreInit ==
    /\ tickets = {}
    /\ ai_logs = <<>>
    /\ pc = "aggregate"
    /\ op = "generate_comprehensive_report"
    /\ outcome = "none"
    /\ user_input = <<>>
    /\ customer_name = ""
    /\ cls = EmptyDict
    /\ result = EmptyDict
    /\ \E ce \in ClassificationSamples, rq \in QualitySamples, ar \in RoutingSamples :
          handled = [classification_evaluation |-> ce,
                     response_quality_evaluation |-> rq,
                     agent_routing_evaluation |-> ar]
    /\ agent_path = ""
    /\ gen = NoGen
    /\ ret = None
    /\ clock = 0
    /\ llmCalls = 0
    /\ path = <<>>
    /\ completion = NoCompletion
    /\ replyCompletion = NoCompletion
    /\ llm_response = <<>>
    /\ dbFaults = {}
    /\ appended = <<>>
    /\ dbCalls = <<>>
    /\ tickets0 = {}
    /\ logs0 = <<>>

Aggregate ==
    /\ pc = "aggregate"
    /\ LET run == HealthRun(handled.classification_evaluation,
                            handled.response_quality_evaluation,
                            handled.agent_routing_evaluation)
       IN  /\ result' = run.ret
           /\ outcome' = IF run.raised THEN "raised" ELSE "returned"
    /\ pc' = "idle"
    /\ UNCHANGED << tickets, ai_logs, op, user_input, customer_name, cls, handled,
                    agent_path, gen, ret, clock, llmCalls, path, completion,
                    llm_response, dbFaults, appended, dbCalls, tickets0, logs0,
                    replyCompletion >>

ScoreNext == Aggregate

ScoreSpec == ScoreInit /\ [][ScoreNext]_vars

(***************************************************************************)
(* The store on its own: create_ticket, get_ticket and update_status       *)
(* called in any order, on numbers in the store and not.                   *)
(***************************************************************************)
StoreTickets ==
    ExternalTickets
        \cup { [type |-> "REQ", title |-> "New Debit Card",
                description |-> "Request new debit card",
                customer |-> "Jane Doe", priority |-> "Medium"] }

\* numbers the calls are made with: two a draw can produce, one it cannot
StoreNumbers == {"INC1234567890", "REQ1000000000", "PBI5555555555"}

GetTicket(number, dbOk) ==
    /\ pc = "idle"
    /\ Begin("get_ticket", <<number>>, "")
    /\ outcome' = "returned"
    /\ ret' = get_ticket(number, dbOk)
    /\ dbFaults' = IF dbOk THEN {} ELSE {"get"}
    /\ gen' = NoGen
    /\ UNCHANGED << tickets, ai_logs, pc >>

StoreNext ==
    \/ \E t \in StoreTickets : CreateTicket(t)
    \/ \E n \in DrawSet, dbOk \in BOOLEAN : GenerateTicketNumber(n, dbOk)
    \/ \E dbOk \in BOOLEAN : CreateTicketInsert(dbOk)
    \/ \E number \in StoreNumbers, dbOk \in BOOLEAN : GetTicket(number, dbOk)
    \/ \E number \in StoreNumbers, u \in StatusUpdates, dbOk \in BOOLEAN :
          UpdateStatus(number, u, dbOk)

StoreSpec == Init /\ [][StoreNext]_vars

\* random.randint gives every value of its range a positive probability:
\* a turn of the loop that draws a number not in use is taken in the end,
\* and the INSERT follows the loop (both steps change pc)
DrawUnused ==
    \E n \in DrawSet : GenerateTicketNumber(n, TRUE) /\ pc' = "insert"

\* create_ticket called over and over by an external actor
CreateNext ==
    \/ \E t \in StoreTickets : CreateTicket(t)
    \/ \E n \in DrawSet, dbOk \in BOOLEAN : GenerateTicketNumber(n, dbOk)
    \/ \E dbOk \in BOOLEAN : CreateTicketInsert(dbOk)

FairCreateSpec ==
    /\ Init
    /\ [][CreateNext]_vars
    /\ WF_pc(DrawUnused)
    /\ WF_pc(\E dbOk \in BOOLEAN : CreateTicketInsert(dbOk))

(***************************************************************************)
(* A complaint followed up: process_message on a complaint and on texts    *)
(* that quote the number a complaint can be given, with status updates     *)
(* from outside in between.                                                *)
(***************************************************************************)
MsgFollowUp ==
    <<"A", "n", "y", " ", "n", "e", "w", "s", " ", "o", "n", " ", "I", "N", "C", "1", "2", "3", "4", "5", "6", "7", "8", "9", "0", "?">>

MsgFollowUpLo ==
    <<"I", "N", "C", "1", "0", "0", "0", "0", "0", "0", "0", "0", "0", " ", "p", "l", "e", "a", "s", "e">>

FollowUpMessages == {MsgComplaint, MsgFollowUp, MsgFollowUpLo}

\* the Classifier's completion labels the complaint, or fails
FollowUpOutcomes ==
    { [kind |-> "content", text |-> AnsNegative],
      [kind |-> "raise", text |-> ExcConnection] }

\* the update made from outside in between
FollowUpTargets == {"INC1234567890"}

FollowUpUpdates == {[status |-> "In Progress", resolution |-> None]}

FollowUpNext ==
    \/ \E text \in FollowUpMessages, name \in CustomerNames : ProcessMessage(text, name)
    \/ \E o \in FollowUpOutcomes, dt \in ElapsedMs : ClassifierProcess(o, dt)
    \/ Dispatch
    \/ HandleNegative
    \/ \E n \in DrawSet, dbOk \in BOOLEAN : GenerateTicketNumber(n, dbOk)
    \/ \E dbOk \in BOOLEAN : CreateTicketInsert(dbOk)
    \/ \E logOk \in BOOLEAN : HandleNegativeReply(logOk)
    \/ \E getOk \in BOOLEAN, logOk \in BOOLEAN : QueryHandlerProcess(getOk, logOk)
    \/ Merge
    \/ \E number \in FollowUpTargets, u \in FollowUpUpdates, dbOk \in BOOLEAN :
          UpdateStatus(number, u, dbOk)

FollowUpSpec == Init /\ [][FollowUpNext]_vars

(***************************************************************************)
(* The log as process_message alone fills it, read by the routing         *)
(* evaluation between calls.                                               *)
(***************************************************************************)
LiveNext ==
    \/ \E text \in Messages, name \in CustomerNames : ProcessMessage(text, name)
    \/ \E o \in LlmOutcomes, dt \in ElapsedMs : ClassifierProcess(o, dt)
    \/ Dispatch
    \/ \E o \in ReplyOutcomes, dt \in ElapsedMs, logOk \in BOOLEAN :
          HandlePositive(o, dt, logOk)
    \/ HandleNegative
    \/ \E n \in DrawSet, dbOk \in BOOLEAN : GenerateTicketNumber(n, dbOk)
    \/ \E dbOk \in BOOLEAN : CreateTicketInsert(dbOk)
    \/ \E logOk \in BOOLEAN : HandleNegativeReply(logOk)
    \/ \E getOk \in BOOLEAN, logOk \in BOOLEAN : QueryHandlerProcess(getOk, logOk)
    \/ Merge
    \/ EvaluateAgentRoutingSuccess

LiveSpec == Init /\ [][LiveNext]_vars

(***************************************************************************)
(* Properties of process_message, stated on the calls the model makes.     *)
(***************************************************************************)
\* process_message has returned its result dict
Returned == pc = "idle" /\ op = "process_message" /\ outcome = "returned"

\* the classifier has returned inside the running process_message call
Classified == op = "process_message" /\ cls # EmptyDict

\* the messages that hold a ticket reference, in upper or lower case
MessagesWithTicket == {MsgStatusLower, MsgStatusReq}

\* the reference each of them holds, upper-cased
RefOf(text) == IF text = MsgStatusLower THEN "INC1234567890" ELSE "REQ1000000000"

\* C1: a message that, upper-cased, contains INC/REQ/CRQ/PBI/RLM followed by
\* ten digits is classified 'query' with confidence 0.95 and method
\* 'rule_based', and the classifier makes no language-model request for it,
\* whatever the rest of the text says.
C1_RuleBasedDetection ==
    (op = "process_message" /\ path # <<>> /\ user_input \in MessagesWithTicket) =>
        /\ outcome # "raised"
        /\ cls.success = TRUE
        /\ cls.classification = "query"
        /\ cls.confidence = 95
        /\ cls.method = "rule_based"
        /\ completion = NoCompletion
        /\ llm_response = <<>>
        /\ llmCalls = 0

\* the lower-case reference "inc1234567890?" has been classified by the rule
C1_Witness ==
    /\ pc = "route"
    /\ user_input = MsgStatusLower
    /\ cls.method = "rule_based"
    /\ llmCalls = 0

\* C2: after a successful classification exactly one handler runs, the one
\* the label selects (positive_feedback and negative_feedback go to
\* FeedbackHandler, query to QueryHandler); the result's agent_path is
\* "Classifier → <handler>", its classification the classifier's label, and
\* its success flag the one the handler returned.
C2_RoutingDeterminism ==
    /\ (op = "process_message" => Len(path) <= 2)
    /\ (Returned /\ cls.success) =>
          /\ Len(path) = 2
          /\ path[1] = "Classifier"
          /\ (cls.classification = "positive_feedback" => path[2] = "FeedbackHandler")
          /\ (cls.classification = "negative_feedback" => path[2] = "FeedbackHandler")
          /\ (cls.classification = "query" => path[2] = "QueryHandler")
          /\ cls.classification \in {"positive_feedback", "negative_feedback", "query"}
          /\ result.agent_path = "Classifier → " \o path[2]
          /\ result.classification = cls.classification
          /\ result.success = handled.success

\* a query was routed to QueryHandler and the handler's failure flag is the
\* one the result carries
C2_Witness ==
    /\ Returned
    /\ cls.success
    /\ path = <<"Classifier", "QueryHandler">>
    /\ handled.success = FALSE
    /\ result.success = FALSE
    /\ result.agent_path = "Classifier → QueryHandler"

\* the label the three valid completions stand for, 'unknown' for the rest
ExpectedLabel(o) ==
    CASE o = [kind |-> "content", text |-> AnsPositive] -> "positive_feedback"
      [] o = [kind |-> "content", text |-> AnsNegative] -> "negative_feedback"
      [] o = [kind |-> "content", text |-> AnsQuery] -> "query"
      [] OTHER -> "unknown"

\* C3: the label is always one of positive_feedback, negative_feedback,
\* query, unknown; success is true exactly when it is not unknown; and a
\* completion becomes a valid label only when, trimmed and lower-cased, it
\* is exactly one of the three ("query." and "Thank you!" are unknown).
C3_LabelSet ==
    Classified =>
        /\ cls.classification \in {"positive_feedback", "negative_feedback", "query",
                                   "unknown"}
        /\ cls.success = (cls.classification # "unknown")
        /\ (cls.method = "llm_based" => cls.classification = ExpectedLabel(completion))

\* " Negative_Feedback" was trimmed and lower-cased into a valid label
C3_Witness ==
    /\ pc = "route"
    /\ completion = [kind |-> "content", text |-> AnsNegative]
    /\ cls.classification = "negative_feedback"
    /\ cls.success

\* C4: when the language-model request fails (the client raises, or the
\* completion has no content), the classifier raises nothing: the failure
\* becomes an "Error: ..." text, the label is unknown with success false,
\* and process_message returns the rejection.
C4_LlmFailureFailsSoft ==
    (op = "process_message" /\ completion.kind \in {"raise", "none"}) =>
        /\ outcome # "raised"
        /\ SubSeq(llm_response, 1, 7) = <<"E", "r", "r", "o", "r", ":", " ">>
        /\ cls.classification = "unknown"
        /\ cls.success = FALSE
        /\ path = <<"Classifier">>
        /\ (Returned => result.success = FALSE /\ tickets = tickets0 /\ ai_logs = logs0)

\* the client raised and the call still returned, as a rejection
C4_Witness ==
    /\ Returned
    /\ completion.kind = "raise"
    /\ cls.classification = "unknown"
    /\ result.success = FALSE

\* C5: while the store's writes succeed, a negative-feedback call adds
\* exactly one ticket, of type INC, title 'Customer Complaint', the original
\* text as description, the customer's name, priority High and status New,
\* under a number no earlier ticket has; the number is in the result and in
\* the apology, the action is 'incident_created', and an identical earlier
\* complaint does not stop a new ticket from being created.
C5_NegativeCreatesIncident ==
    (Returned /\ cls.classification = "negative_feedback" /\ "insert" \notin dbFaults) =>
        LET T == result.ticket_number
        IN  /\ T # None
            /\ T \notin {r.ticket_number : r \in tickets0}
            /\ tickets = tickets0 \cup
                  { [ticket_number |-> T, ticket_type |-> "INC",
                     title |-> "Customer Complaint", description |-> Join(user_input),
                     status |-> "New", priority |-> "High",
                     customer_name |-> customer_name, resolution |-> None] }
            /\ Cardinality(tickets) = Cardinality(tickets0) + 1
            /\ SubSeq(T, 1, 3) = "INC"
            /\ result.success = TRUE
            /\ result.action = "incident_created"
            /\ result.response =
                  "We sincerely apologize for the inconvenience, " \o customer_name
                     \o ". A new incident " \o T
                     \o " has been created and our team will address this issue promptly."

\* the same complaint by the same customer was already a ticket, and the
\* call added a second one
C5_Witness ==
    /\ Returned
    /\ cls.classification = "negative_feedback"
    /\ dbFaults = {}
    /\ \E r \in tickets0 :
          /\ r.title = "Customer Complaint"
          /\ r.description = Join(user_input)
          /\ r.customer_name = customer_name
    /\ Cardinality(tickets) = 2
    /\ result.ticket_number \in {r.ticket_number : r \in tickets \ tickets0}

\* C6: when create_ticket fails inside the negative-feedback path, the
\* handler does not return success true and does not send the reply that
\* says an incident was created.
C6_CreationFailureNotSuccess ==
    (Returned /\ cls.classification = "negative_feedback" /\ "insert" \in dbFaults) =>
        /\ result.success = FALSE
        /\ result.action # "incident_created"
        /\ result.response #
              "We sincerely apologize for the inconvenience, " \o customer_name
                 \o ". A new incident None has been created and our team will address "
                 \o "this issue promptly."

\* C7: no two stored tickets share a number; the number create_ticket
\* inserts under was absent from the store when it was generated (a drawn
\* number already present is drawn again), and so is every number it returns.
C7_TicketNumbersUnique ==
    /\ \A r1 \in tickets, r2 \in tickets : r1.ticket_number = r2.ticket_number => r1 = r2
    /\ (pc = "insert" => \A r \in tickets : r.ticket_number # gen.number)
    /\ (pc = "negative_reply" /\ gen.value # None =>
           /\ \A r \in tickets0 : r.ticket_number # gen.value
           /\ \E r \in tickets : r.ticket_number = gen.value)
    /\ (op = "create_ticket" /\ outcome = "returned" /\ ret # None =>
           /\ \A r \in tickets0 : r.ticket_number # ret
           /\ Cardinality({r \in tickets : r.ticket_number = ret}) = 1)

\* a second ticket of a type already in the store was created, under the
\* one number of the draw set still free
C7_Witness ==
    /\ op = "create_ticket"
    /\ outcome = "returned"
    /\ ret # None
    /\ Cardinality(tickets0) = 1
    /\ Cardinality(tickets) = 2
    /\ \A r \in tickets : r.ticket_type = "INC"

\* C8 as stated: every process_message call, the rejected message and the
\* query without a ticket reference included, appends exactly one entry to
\* the interaction log.
C8_ExactlyOneEntryPerCall ==
    Returned => Len(appended) = 1 /\ Len(ai_logs) = Len(logs0) + 1

\* the call took a path on which a handler logs: the classification
\* succeeded, and a 'query' text holds a ticket reference
OnLoggedPath ==
    /\ cls.success
    /\ (cls.classification = "query" => user_input \in MessagesWithTicket)

\* C8 amended: a process_message call appends at most one entry and leaves
\* the earlier entries as they were.  It appends exactly one, carrying the
\* user's text and the classifier's label, on the positive-feedback,
\* negative-feedback, ticket-found and ticket-not-found paths (the entry is
\* stored unless the append itself fails, which is swallowed); it appends
\* none when the message is rejected as 'unknown' or when a text classified
\* 'query' holds no ticket reference.
C8_OneEntryOnHandledPaths ==
    /\ (op = "process_message" =>
           /\ Len(appended) <= 1
           /\ SubSeq(ai_logs, 1, Len(logs0)) = logs0
           /\ ai_logs = (IF "log" \in dbFaults THEN logs0 ELSE logs0 \o appended))
    /\ (Returned /\ OnLoggedPath =>
           /\ Len(appended) = 1
           /\ appended[1].user_message = Join(user_input)
           /\ appended[1].classification = cls.classification
           /\ appended[1].agent_used = path[2])
    /\ (Returned /\ ~OnLoggedPath => appended = <<>> /\ ai_logs = logs0)

\* a text the model labelled 'query' held no ticket reference: the call
\* returned and the log is as it was, with no store fault involved
C8_Witness ==
    /\ Returned
    /\ cls.classification = "query"
    /\ user_input = MsgComplaint
    /\ dbFaults = {}
    /\ appended = <<>>
    /\ ai_logs = logs0

\* the query handler has returned for a text holding a ticket reference
QueryHandled ==
    /\ op = "process_message"
    /\ pc \in {"merge", "idle"}
    /\ outcome # "raised"
    /\ path = <<"Classifier", "QueryHandler">>
    /\ user_input \in MessagesWithTicket

\* C9: for a well-formed ticket number T with no record in the store, the
\* query handler returns success false with the reply "Ticket T not found.
\* Please verify the number.", appends one log entry with classification
\* 'query', agent 'QueryHandler', ticket number T and success false, and
\* creates or changes no ticket.
C9_TicketNotFound ==
    (QueryHandled /\ \A r \in tickets0 : r.ticket_number # RefOf(user_input)) =>
        LET T == RefOf(user_input)
            reply == "Ticket " \o T \o " not found. Please verify the number."
        IN  /\ handled.success = FALSE
            /\ handled.response = reply
            /\ handled.ticket_number = T
            /\ appended = << [user_message |-> Join(user_input), classification |-> "query",
                              agent_used |-> "QueryHandler", response |-> reply,
                              ticket_number |-> T, success |-> 0] >>
            /\ ("log" \notin dbFaults => ai_logs = Append(logs0, appended[1]))
            /\ tickets = tickets0
            /\ (Returned => result.success = FALSE /\ result.response = reply)

\* "inc1234567890?" was asked about while the store held another ticket
\* only: the reply names INC1234567890 and the entry is in the log
C9_Witness ==
    /\ Returned
    /\ user_input = MsgStatusLower
    /\ tickets0 # {}
    /\ result.response = "Ticket INC1234567890 not found. Please verify the number."
    /\ Len(ai_logs) = Len(logs0) + 1
    /\ ai_logs[Len(ai_logs)].ticket_number = "INC1234567890"
    /\ ai_logs[Len(ai_logs)].success = 0

\* the display name of a ticket type
DisplayName(type) ==
    CASE type = "INC" -> "Incident"
      [] type = "REQ" -> "Service Request"
      [] type = "CRQ" -> "Change Request"
      [] type = "PBI" -> "Problem"
      [] type = "RLM" -> "Release"
      [] OTHER -> "Ticket"

\* the reply for a ticket found, by its status; resolution is a text
StatusReply(type, number, title, status, resolution) ==
    LET named == "Your " \o DisplayName(type) \o " " \o number
    IN  CASE status = "New" ->
               named \o " '" \o title \o "' has been logged and is awaiting assignment."
          [] status = "In Progress" ->
               named \o " '" \o title \o "' is currently being worked on by our team."
          [] status = "Resolved" ->
               named \o " '" \o title \o "' has been resolved. " \o resolution
          [] status = "Closed" ->
               named \o " '" \o title \o "' has been closed."
          [] OTHER ->
               named \o " is currently '" \o status \o "'."

\* tickets of every type and status, each with a resolution text
SampleTickets ==
    [type : {"INC", "REQ", "CRQ", "PBI", "RLM", "XYZ"},
     number : {"REQ1000000000"},
     title : {"New Debit Card Request"},
     status : {"New", "In Progress", "Resolved", "Closed", "On Hold"},
     resolution : {"Card issued"}]

\* C10: for a ticket number T whose record the store returns, the query
\* handler returns success true with the reply its status selects (New, In
\* Progress, Resolved with the resolution text, Closed, any other status),
\* naming the type Incident, Service Request, Change Request, Problem,
\* Release or Ticket, and appends one log entry naming T with success true.
\* A Resolved ticket without a resolution text is left to C11.
C10_StatusReply ==
    /\ \A t \in SampleTickets :
          GenerateStatusResponse(t)
             = StatusReply(t.type, t.number, t.title, t.status, t.resolution)
    /\ (QueryHandled /\ "get" \notin dbFaults
           /\ \E r \in tickets0 : r.ticket_number = RefOf(user_input)) =>
          LET T == RefOf(user_input)
              r == CHOOSE x \in tickets0 : x.ticket_number = T
          IN  /\ handled.success = TRUE
              /\ handled.ticket_number = T
              /\ (~(r.status = "Resolved" /\ r.resolution = None) =>
                     handled.response
                        = StatusReply(r.ticket_type, T, r.title, r.status, r.resolution))
              /\ appended = << [user_message |-> Join(user_input),
                                classification |-> "query",
                                agent_used |-> "QueryHandler",
                                response |-> handled.response,
                                ticket_number |-> T, success |-> 1] >>
              /\ ("log" \notin dbFaults => ai_logs = Append(logs0, appended[1]))
              /\ tickets = tickets0
              /\ (Returned => result.success = TRUE
                              /\ result.response = handled.response)

\* INC1234567890, resolved with a resolution text, was asked about
C10_Witness ==
    /\ Returned
    /\ user_input = MsgStatusLower
    /\ result.success = TRUE
    /\ result.response =
          "Your Incident INC1234567890 'Credit Card Blocked' has been resolved. "
             \o "Card unblocked after verification"
    /\ Len(ai_logs) = Len(logs0) + 1
    /\ ai_logs[Len(ai_logs)].success = 1

\* C11: for a ticket found with status Resolved and no resolution text in
\* the store, the status reply ends with the default sentence 'Issue
\* resolved.' and not with a rendering of the missing value.
C11_DefaultResolution ==
    (QueryHandled /\ "get" \notin dbFaults
        /\ \E r \in tickets0 : /\ r.ticket_number = RefOf(user_input)
                               /\ r.status = "Resolved"
                               /\ r.resolution = None) =>
        LET T == RefOf(user_input)
            r == CHOOSE x \in tickets0 : x.ticket_number = T
        IN  /\ handled.success = TRUE
            /\ handled.response
                  = "Your Incident " \o T \o " '" \o r.title \o "' has been resolved. "
                       \o "Issue resolved."

\* C12: when the query handler finds no ticket reference in the text, it
\* returns success false with the fixed prompt for a valid ticket number and
\* makes no store call: no look-up, no ticket write, no log append; tickets
\* and log are as before the call.
C12_NoReferenceNoStoreAccess ==
    (op = "process_message" /\ pc \in {"merge", "idle"} /\ outcome # "raised"
        /\ path = <<"Classifier", "QueryHandler">>
        /\ user_input \notin MessagesWithTicket) =>
        /\ handled = [success |-> FALSE,
                      response |-> "Please provide a valid ticket number (INC/REQ/CRQ/PBI/RLM + 10 digits)",
                      processing_time_ms |-> 5]
        /\ dbCalls = <<>>
        /\ appended = <<>>
        /\ dbFaults = {}
        /\ tickets = tickets0
        /\ ai_logs = logs0

\* "bad card", labelled 'query' by the model, was answered with the prompt
\* while the store held a ticket and a log entry, both left as they were
C12_Witness ==
    /\ Returned
    /\ user_input = MsgComplaint
    /\ path = <<"Classifier", "QueryHandler">>
    /\ result.success = FALSE
    /\ dbCalls = <<>>
    /\ tickets # {}
    /\ ai_logs # <<>>
    /\ tickets = tickets0
    /\ ai_logs = logs0

\* C14: when the classifier returns success false, process_message returns
\* success false with the reply 'Unable to understand your message. Please
\* try again.' and the total elapsed time, runs neither handler, and
\* creates no ticket.
C14_Rejected ==
    (Returned /\ ~cls.success) =>
        /\ result = [success |-> FALSE,
                     response |-> "Unable to understand your message. Please try again.",
                     total_processing_time_ms |-> clock]
        /\ path = <<"Classifier">>
        /\ handled = EmptyDict
        /\ dbCalls = <<>>
        /\ tickets = tickets0

\* "Thank you!" came back as the label: the message was rejected, with the
\* time of the one request as total
C14_Witness ==
    /\ Returned
    /\ completion = [kind |-> "content", text |-> AnsThanks]
    /\ cls.classification = "unknown"
    /\ result.response = "Unable to understand your message. Please try again."
    /\ result.total_processing_time_ms = 40
    /\ path = <<"Classifier">>

\* C15: within one call the classifier runs once and first, at most one
\* handler runs, once; the completion service is called 0 times for a
\* rule-matched query, once when the model path ends in negative feedback,
\* a query or 'unknown', twice for positive feedback; a failed request is
\* not issued again.
C15_CallCounts ==
    op = "process_message" =>
        /\ path \in {<<>>, <<"Classifier">>, <<"Classifier", "FeedbackHandler">>,
                     <<"Classifier", "QueryHandler">>}
        /\ (pc \in {"handle_positive", "handle_negative", "generate", "insert",
                    "negative_reply", "query_handler", "merge"} => Len(path) = 2)
        /\ (completion.kind \in {"raise", "none"} => llmCalls = 1)
        /\ (Classified /\ cls.method = "rule_based" => llmCalls = 0)
        /\ (Classified /\ cls.method = "llm_based"
               /\ cls.classification \in {"negative_feedback", "query", "unknown"} =>
                  llmCalls = 1)
        /\ (Returned /\ cls.classification = "positive_feedback" => llmCalls = 2)
        /\ (Classified /\ cls.classification = "positive_feedback" /\ pc # "idle" =>
               llmCalls = (IF pc = "merge" THEN 2 ELSE 1))

\* positive feedback whose thank-you request failed: two requests in all,
\* and the second was not repeated
C15_Witness ==
    /\ Returned
    /\ cls.classification = "positive_feedback"
    /\ result.response = "Error: Connection error."
    /\ llmCalls = 2
    /\ path = <<"Classifier", "FeedbackHandler">>

\* C16: a process_message call keeps every ticket it found, field by field,
\* and every log entry it found, in place; so does create_ticket; only
\* update_status changes an existing ticket, and then only the status and
\* resolution of the one ticket it names; no operation changes or removes a
\* log entry.
C16_CoreOnlyAdds ==
    /\ SubSeq(ai_logs, 1, Len(logs0)) = logs0
    /\ Len(logs0) <= Len(ai_logs)
    /\ (op \in {"process_message", "create_ticket"} => tickets0 \subseteq tickets)
    /\ (op \in {"create_ticket", "update_status"} => ai_logs = logs0)
    /\ (op = "update_status" =>
           /\ {r.ticket_number : r \in tickets} = {r.ticket_number : r \in tickets0}
           /\ Cardinality(tickets) = Cardinality(tickets0)
           /\ Cardinality(tickets0 \ tickets) <= 1
           /\ \A r \in tickets0 \ tickets :
                 /\ r.ticket_number \in UpdateTargets
                 /\ \E r2 \in tickets :
                       r2 = [r EXCEPT !.status = r2.status, !.resolution = r2.resolution])

\* a complaint was handled while the store held a ticket resolved earlier
\* and the log an entry: both are still there, next to the new ones
C16_Witness ==
    /\ Returned
    /\ cls.classification = "negative_feedback"
    /\ \E r \in tickets0 : r.status = "Resolved"
    /\ logs0 # <<>>
    /\ tickets0 \subseteq tickets
    /\ tickets # tickets0
    /\ ai_logs # logs0

\* a ticket reference stands at position p of s: one of the five prefixes,
\* then ten digits
IsRefAt(s, p) ==
    /\ p + 12 <= Len(s)
    /\ <<s[p], s[p + 1], s[p + 2]>> \in
          { <<"I", "N", "C">>, <<"R", "E", "Q">>, <<"C", "R", "Q">>, <<"P", "B", "I">>,
            <<"R", "L", "M">> }
    /\ \A k \in 3..12 :
          s[p + k] \in {"0", "1", "2", "3", "4", "5", "6", "7", "8", "9"}

\* the first reference in s, None when s holds none
FirstRef(s) ==
    IF \E p \in 1..Len(s) : IsRefAt(s, p)
    THEN LET p == CHOOSE p \in 1..Len(s) :
                      IsRefAt(s, p) /\ \A q \in 1..(p - 1) : ~IsRefAt(s, q)
         IN  Join(SubSeq(s, p, p + 12))
    ELSE None

\* the query handler has returned inside the running call
QueryHandlerReturned ==
    /\ op = "process_message"
    /\ pc \in {"merge", "idle"}
    /\ outcome # "raised"
    /\ path = <<"Classifier", "QueryHandler">>

\* C13: for every text, the classifier's rule fires exactly when the query
\* handler extracts a reference, namely when the upper-cased text holds
\* one; the number the handler looks up is the first reference of the
\* upper-cased text; a message classified by the rule never ends in the
\* 'Please provide a valid ticket number' reply.
C13_ExtractionAgrees ==
    LET ref == FirstRef(Upper(user_input))
        prompt == "Please provide a valid ticket number (INC/REQ/CRQ/PBI/RLM + 10 digits)"
    IN  /\ (Classified => ((cls.method = "rule_based") <=> (ref # None)))
        /\ (QueryHandlerReturned =>
               IF ref = None
               THEN handled.response = prompt /\ "ticket_number" \notin DOMAIN handled
               ELSE /\ handled.ticket_number = ref
                    /\ handled.response # prompt
                    /\ dbCalls[1] = "get_ticket")
        /\ (Returned /\ cls.method = "rule_based" =>
               /\ path = <<"Classifier", "QueryHandler">>
               /\ result.response # prompt
               /\ result.ticket_number = ref)

\* a text whose first candidate has nine digits only and whose second, in
\* lower case, is a reference: the rule fired and the second was looked up
C13_Witness ==
    /\ Returned
    /\ cls.method = "rule_based"
    /\ SubSeq(user_input, 1, 12)
          = <<"I", "N", "C", "1", "2", "3", "4", "5", "6", "7", "8", "9">>
    /\ result.ticket_number = "REQ0000000001"
    /\ result.response = "Ticket REQ0000000001 not found. Please verify the number."

(***************************************************************************)
(* Properties of the evaluator.                                            *)
(***************************************************************************)
NoInteractions == [message |-> "No interactions found for evaluation"]

NoRoutingData == [message |-> "No routing data available"]

\* C17: evaluate_response_quality returns without raising for every state
\* of the interaction log: on an empty log it returns the no-data
\* indicator, on a non-empty log a report over the most recent at most 50
\* rows whose success_rate is successful rows / rows read * 100.
C17_ResponseQualityReturns ==
    op = "evaluate_response_quality" =>
        /\ outcome = "returned"
        /\ IF logs0 = <<>>
           THEN result = NoInteractions
           ELSE LET read == IF Len(logs0) < 50 THEN Len(logs0) ELSE 50
                    successful == {i \in (Len(logs0) - read + 1)..Len(logs0) :
                                      logs0[i].success = 1}
                IN  /\ DOMAIN result # {}
                    /\ result.total_interactions = read
                    /\ result.success_rate.num * read
                          = Cardinality(successful) * 100 * result.success_rate.den

\* C18: generate_comprehensive_report on a store whose interaction log is
\* empty does not raise and returns a report with the three evaluations,
\* an overall health score, a grade and recommendations, the missing
\* success rate and routing accuracy being explicit no-data results.
C18_ReportOnEmptyLog ==
    (op = "generate_comprehensive_report" /\ pc = "idle" /\ logs0 = <<>>) =>
        /\ outcome = "returned"
        /\ DOMAIN result = {"classification_evaluation", "response_quality_evaluation",
                            "agent_routing_evaluation", "overall_system_health"}
        /\ result.response_quality_evaluation = NoInteractions
        /\ result.agent_routing_evaluation = NoRoutingData
        /\ DOMAIN result.overall_system_health = {"score", "grade", "recommendations"}

RECURSIVE SumCounts(_, _)
SumCounts(matrix, cells) ==
    IF cells = {} THEN 0
    ELSE LET cell == CHOOSE x \in cells : TRUE
         IN  matrix[cell[1]][cell[2]].count + SumCounts(matrix, cells \ {cell})

MatrixCells(matrix) ==
    UNION {{<<c, a>> : a \in DOMAIN matrix[c]} : c \in DOMAIN matrix}

\* C19: evaluate_agent_routing_success returns the no-data indicator when
\* no log row has both a label and a handler; otherwise total_routings is
\* the number of such rows, correct_routings the number of them whose label
\* is positive_feedback, negative_feedback or query and whose handler name
\* contains the expected handler name for that label (so a row labelled
\* outside the mapping counts as incorrect), routing_accuracy is
\* correct_routings / total_routings * 100, and the counts of the routing
\* matrix sum to total_routings.
C19_RoutingReport ==
    op = "evaluate_agent_routing_success" =>
        LET rows == {i \in 1..Len(logs0) : /\ logs0[i].classification # None
                                           /\ logs0[i].agent_used # None}
            expects(i, label, handler) ==
                /\ logs0[i].classification = label
                /\ Contains(handler, logs0[i].agent_used)
            correct == {i \in rows : \/ expects(i, "positive_feedback", "FeedbackHandler")
                                     \/ expects(i, "negative_feedback", "FeedbackHandler")
                                     \/ expects(i, "query", "QueryHandler")}
        IN  /\ outcome = "returned"
            /\ ai_logs = logs0
            /\ IF rows = {}
               THEN result = NoRoutingData
               ELSE /\ "message" \notin DOMAIN result
                    /\ result.total_routings = Cardinality(rows)
                    /\ result.correct_routings = Cardinality(correct)
                    /\ result.routing_accuracy.num * Cardinality(rows)
                          = Cardinality(correct) * 100 * result.routing_accuracy.den
                    /\ SumCounts(result.routing_matrix,
                                 MatrixCells(result.routing_matrix))
                          = result.total_routings

\* two routed rows, one under a label outside the mapping and one handled
\* by a handler whose name contains the expected one
C19_Witness ==
    /\ op = "evaluate_agent_routing_success"
    /\ Len(logs0) = 2
    /\ \E i \in 1..2 : logs0[i].classification = "unknown"
    /\ \E i \in 1..2 : logs0[i].agent_used = "BackupQueryHandler"
    /\ "message" \notin DOMAIN result
    /\ result.total_routings = 2
    /\ result.correct_routings = 1
    /\ result.routing_accuracy = Frac(50, 1)

\* the no-data case of C19: rows are logged, none with both columns
C19_NoDataWitness ==
    /\ op = "evaluate_agent_routing_success"
    /\ logs0 # <<>>
    /\ result = NoRoutingData

Grades ==
    <<"F - Poor", "D - Needs Improvement", "C - Satisfactory", "B - Good",
      "A - Excellent">>

Rank(grade) == CHOOSE i \in 1..Len(Grades) : Grades[i] = grade

IsPercentage(q) == q.den > 0 /\ 0 <= q.num /\ q.num <= 100 * q.den

\* C20: the overall health score is the unweighted mean of classification
\* accuracy, response success rate and routing accuracy, each between 0 and
\* 100, so the score is between 0 and 100; the grade is a total, monotone
\* function of the score with inclusive lower bounds: A from 90, B from 80
\* to below 90, C from 70 to below 80, D from 60 to below 70, F below 60.
C20_ScoreAndGrade ==
    (pc = "idle" /\ outcome = "returned") =>
        LET health == result.overall_system_health
            score == health.score
            a == handled.classification_evaluation.accuracy_percentage
            q == handled.response_quality_evaluation.success_rate
            r == GetOr(handled.agent_routing_evaluation, "routing_accuracy", Zero)
            atLeast(k) == score.num >= k * score.den
        IN  /\ IsPercentage(a) /\ IsPercentage(q) /\ IsPercentage(r)
            /\ 3 * score.num * a.den * q.den * r.den
                  = score.den * (a.num * q.den * r.den + q.num * a.den * r.den
                                    + r.num * a.den * q.den)
            /\ IsPercentage(score)
            /\ health.grade = (IF atLeast(90) THEN "A - Excellent"
                               ELSE IF atLeast(80) THEN "B - Good"
                               ELSE IF atLeast(70) THEN "C - Satisfactory"
                               ELSE IF atLeast(60) THEN "D - Needs Improvement"
                               ELSE "F - Poor")
            /\ \A x \in 0..100, y \in 0..100 :
                  x <= y => Rank(_get_grade(Frac(x, 1))) <= Rank(_get_grade(Frac(y, 1)))

\* a score of exactly 90, on the inclusive bound of the top grade
C20_Witness ==
    /\ pc = "idle"
    /\ outcome = "returned"
    /\ handled.classification_evaluation.accuracy_percentage = Frac(70, 1)
    /\ result.overall_system_health.score = Frac(90, 1)
    /\ result.overall_system_health.grade = "A - Excellent"

(***************************************************************************)
(* Further properties of the handlers and of the store.                    *)
(***************************************************************************)
\* str(e) of the failure the completion service answered with
FailureText(o) == IF o.kind = "none" THEN Join(ExcNoneStrip) ELSE Join(o.text)

\* C21: when the completion call fails during positive-feedback handling,
\* the handler does not raise and nothing reaches the orchestrator as a
\* fault: it returns a result whose reply embeds the failure description,
\* appends its log entry all the same, and creates no ticket.
C21_PositiveFailureFailsSoft ==
    (op = "process_message" /\ replyCompletion.kind \in {"raise", "none"}) =>
        /\ outcome # "raised"
        /\ pc \in {"merge", "idle"}
        /\ path = <<"Classifier", "FeedbackHandler">>
        /\ DOMAIN handled = {"success", "response", "action", "processing_time_ms"}
        /\ Contains(FailureText(replyCompletion), handled.response)
        /\ appended = << LogRow(Join(user_input), "positive_feedback", "FeedbackHandler",
                                handled.response, None, TRUE) >>
        /\ ai_logs = (IF "log" \in dbFaults THEN logs0 ELSE logs0 \o appended)
        /\ dbCalls = <<"log_interaction">>
        /\ tickets = tickets0
        /\ (Returned => result.response = handled.response)

\* the thank-you request failed with a connection error and the call
\* returned "Error: Connection error." as its reply, logged
C21_Witness ==
    /\ Returned
    /\ replyCompletion = [kind |-> "raise", text |-> ExcConnection]
    /\ result.response = "Error: Connection error."
    /\ ai_logs = Append(logs0, appended[1])

\* C22: a failure while appending to the interaction log never aborts the
\* user-visible flow: log_interaction returns normally with the log
\* unchanged, and the process_message call returns the success flag, reply
\* and ticket number it returns when the append succeeds, namely those of
\* the row it asked to append.
C22_LogFailureSwallowed ==
    (op = "process_message" /\ appended # <<>>) =>
        /\ outcome # "raised"
        /\ pc \in {"merge", "idle"}
        /\ Len(appended) = 1
        /\ ai_logs = (IF "log" \in dbFaults THEN logs0 ELSE Append(logs0, appended[1]))
        /\ SqlBool(handled.success) = appended[1].success
        /\ handled.response = appended[1].response
        /\ GetOr(handled, "ticket_number", None) = appended[1].ticket_number
        /\ (Returned =>
               /\ result.success = handled.success
               /\ result.response = handled.response
               /\ GetOr(result, "ticket_number", None) = appended[1].ticket_number)

\* a complaint's incident was created, the append of its log entry failed,
\* and the call returned the apology with the ticket number
C22_Witness ==
    /\ Returned
    /\ dbFaults = {"log"}
    /\ ai_logs = logs0
    /\ result.success
    /\ result.action = "incident_created"
    /\ result.ticket_number \in Numbers(tickets) \ Numbers(tickets0)
    /\ result.response = ApologyReply(customer_name, result.ticket_number)

\* the dict get_ticket returns for a row
AsDict(r) ==
    [number |-> r.ticket_number, type |-> r.ticket_type, title |-> r.title,
     description |-> r.description, status |-> r.status, priority |-> r.priority,
     customer |-> r.customer_name, resolution |-> r.resolution]

StoreCallReturned(name) == op = name /\ pc = "idle" /\ outcome = "returned"

\* C23: store round trip.  After create_ticket(type, title, description,
\* customer, priority) returns number T, get_ticket(T) returns a record with
\* exactly those fields, status New and no resolution; update_status(T, s,
\* r) on a number in the store returns true and get_ticket(T) then shows
\* status s and resolution r, the other fields as they were; get_ticket and
\* update_status on a number that is not in the store return absent and
\* false and leave the store unchanged.  Calls in which the store itself
\* faults are left aside.
C23_StoreRoundTrip ==
    /\ (StoreCallReturned("create_ticket") /\ ret # None) =>
           /\ ret \notin Numbers(tickets0)
           /\ get_ticket(ret, TRUE)
                 = << [number |-> ret, type |-> gen.type, title |-> gen.title,
                       description |-> gen.description, status |-> "New",
                       priority |-> gen.priority, customer |-> gen.customer,
                       resolution |-> None] >>
           /\ \A r \in tickets0 : get_ticket(r.ticket_number, TRUE) = <<AsDict(r)>>
    /\ (StoreCallReturned("update_status") /\ dbFaults = {}) =>
           LET T == user_input[1]
           IN  IF T \in Numbers(tickets0)
               THEN /\ ret = TRUE
                    /\ \E r \in tickets0 :
                          /\ r.ticket_number = T
                          /\ get_ticket(T, TRUE)
                                = << [AsDict(r) EXCEPT !.status = user_input[2],
                                                       !.resolution = user_input[3]] >>
                    /\ \A r \in tickets0 :
                          r.ticket_number # T
                             => get_ticket(r.ticket_number, TRUE) = <<AsDict(r)>>
               ELSE ret = FALSE /\ tickets = tickets0
    /\ StoreCallReturned("get_ticket") =>
           /\ tickets = tickets0
           /\ IF user_input[1] \in Numbers(tickets0) /\ dbFaults = {}
              THEN \E r \in tickets0 : r.ticket_number = user_input[1] /\ ret = <<AsDict(r)>>
              ELSE ret = <<>>

\* a ticket created as REQ1000000000 was put on hold, another ticket in
\* the store staying as it was
C23_Witness ==
    /\ StoreCallReturned("update_status")
    /\ user_input = <<"REQ1000000000", "On Hold", None>>
    /\ ret = TRUE
    /\ Cardinality(tickets) = 2
    /\ get_ticket("REQ1000000000", TRUE)[1].status = "On Hold"
    /\ get_ticket("REQ1000000000", TRUE)[1].title = "New Debit Card"

\* the absent case of C23: an update of a number not in a non-empty store
C23_AbsentWitness ==
    /\ StoreCallReturned("update_status")
    /\ user_input[1] = "PBI5555555555"
    /\ tickets # {}
    /\ ret = FALSE

\* the positive-feedback handler has been entered and has returned
PositiveHandled ==
    /\ op = "process_message"
    /\ cls # EmptyDict
    /\ cls.classification = "positive_feedback"
    /\ pc \notin {"route", "handle_positive"}

\* C24: positive-feedback handling creates no ticket and changes no
\* ticket: it appends exactly one log entry with label positive_feedback,
\* handler FeedbackHandler and no ticket reference, and returns success
\* true with action 'thanked_customer' and no ticket number in the result.
C24_PositiveFrame ==
    PositiveHandled =>
        /\ outcome # "raised"
        /\ path = <<"Classifier", "FeedbackHandler">>
        /\ tickets = tickets0
        /\ dbCalls = <<"log_interaction">>
        /\ Len(appended) = 1
        /\ appended[1].user_message = Join(user_input)
        /\ appended[1].classification = "positive_feedback"
        /\ appended[1].agent_used = "FeedbackHandler"
        /\ appended[1].ticket_number = None
        /\ appended[1].success = 1
        /\ ai_logs = (IF "log" \in dbFaults THEN logs0 ELSE Append(logs0, appended[1]))
        /\ handled.success = TRUE
        /\ handled.action = "thanked_customer"
        /\ "ticket_number" \notin DOMAIN handled
        /\ (Returned =>
               /\ result.success = TRUE
               /\ result.action = "thanked_customer"
               /\ result.agent_path = "Classifier → FeedbackHandler"
               /\ "ticket_number" \notin DOMAIN result)

\* a thank-you was handled on a store that held a ticket: the ticket is as
\* it was and the log has one more entry, the thank-you reply
C24_Witness ==
    /\ Returned
    /\ PositiveHandled
    /\ replyCompletion.kind = "content"
    /\ tickets0 # {}
    /\ tickets = tickets0
    /\ dbFaults = {}
    /\ Len(ai_logs) = Len(logs0) + 1
    /\ ai_logs[Len(ai_logs)].response = "Thank you!"
    /\ result.response = "Thank you!"

\* the complaint tickets of the store at the call's start that the text
\* quotes and that no update has touched
QuotedNew ==
    {r \in tickets0 : /\ r.title = "Customer Complaint"
                      /\ r.status = "New"
                      /\ Contains(r.ticket_number, Join(user_input))}

ExactRefAt(s, p) ==
    /\ IsRefAt(s, p)
    /\ (p + 13 <= Len(s) =>
           s[p + 13] \notin {"0", "1", "2", "3", "4", "5", "6", "7", "8", "9"})

ExactRefs(s) == {Join(SubSeq(s, p, p + 12)) : p \in {q \in 1..Len(s) : ExactRefAt(s, q)}}

\* C26: the Classifier's ticket rule and the QueryHandler's extraction
\* treat a substring as a ticket reference exactly when it is one of the
\* five prefixes followed immediately by exactly 10 digits: with fewer than
\* 10 digits, or with a run of 11 or more, the text is neither classified
\* by the rule nor looked up by its first 10 digits.
C26_ExactlyTenDigits ==
    LET refs == ExactRefs(Upper(user_input))
    IN  /\ (Classified => ((cls.method = "rule_based") <=> (refs # {})))
        /\ (QueryHandlerReturned =>
               IF refs = {}
               THEN /\ "ticket_number" \notin DOMAIN handled
                    /\ dbCalls = <<>>
               ELSE /\ handled.ticket_number \in refs
                    /\ dbCalls[1] = "get_ticket")

\* C27: the orchestrator's defensive branch is unreachable: for every
\* input text and every behaviour of the completion service,
\* process_message never returns the 'Unable to process your request.'
\* reply, because a classification result with success true carries one of
\* the three routable labels; every call that returns ends either in the
\* 'Unable to understand' rejection or with a handler's result.
C27_DefensiveBranchUnreachable ==
    /\ Classified =>
          /\ cls.success <=> cls.classification # "unknown"
          /\ cls.success => cls.classification \in Labels
    /\ op = "process_message" =>
          /\ GetOr(result, "response", "") # "Unable to process your request."
          /\ GetOr(handled, "response", "") # "Invalid classification"
    /\ Returned =>
          IF cls.success
          THEN /\ path \in {<<"Classifier", "FeedbackHandler">>,
                            <<"Classifier", "QueryHandler">>}
               /\ handled # EmptyDict
               /\ \A k \in DOMAIN handled : result[k] = handled[k]
               /\ result.classification = cls.classification
               /\ result.agent_path = AgentPath(path[2])
          ELSE /\ path = <<"Classifier">>
               /\ handled = EmptyDict
               /\ result.response = "Unable to understand your message. Please try again."

\* the completion answered "query.", which is none of the three labels: the
\* call ended in the 'Unable to understand' rejection
C27_Witness ==
    /\ Returned
    /\ completion = [kind |-> "content", text |-> AnsQueryDot]
    /\ cls.classification = "unknown"
    /\ result.success = FALSE
    /\ result.response = "Unable to understand your message. Please try again."

\* C28: starting from an empty interaction log, after any sequence of
\* process_message calls every log entry has a (label, handler) pair from
\* (positive_feedback, FeedbackHandler), (negative_feedback,
\* FeedbackHandler), (query, QueryHandler) and never the label 'unknown';
\* hence whenever the log is non-empty evaluate_agent_routing_success
\* reports correct_routings equal to total_routings, a routing accuracy of
\* 100.
C28_LoggedPairsRouted ==
    /\ \A i \in 1..Len(ai_logs) :
          <<ai_logs[i].classification, ai_logs[i].agent_used>> \in
             { <<"positive_feedback", "FeedbackHandler">>,
               <<"negative_feedback", "FeedbackHandler">>,
               <<"query", "QueryHandler">> }
    /\ (op = "evaluate_agent_routing_success" /\ logs0 # <<>>) =>
          /\ outcome = "returned"
          /\ "message" \notin DOMAIN result
          /\ result.total_routings = Len(logs0)
          /\ result.correct_routings = result.total_routings
          /\ result.routing_accuracy = Frac(100, 1)

\* a complaint and a ticket query were logged, then the routing was
\* evaluated
C28_Witness ==
    /\ op = "evaluate_agent_routing_success"
    /\ Len(logs0) = 2
    /\ logs0[1].classification = "negative_feedback"
    /\ logs0[2].classification = "query"
    /\ logs0[2].success = 0
    /\ result.total_routings = 2
    /\ result.routing_accuracy = Frac(100, 1)

\* what C29 says of one log entry, against the tickets of the store
EntryConsistent(e, rows) ==
    /\ (e.success = 1 /\ e.ticket_number # None) => e.ticket_number \in Numbers(rows)
    /\ e.success = 0 => (e.classification = "query" /\ e.ticket_number # None)
    /\ e.agent_used = "FeedbackHandler" => e.success = 1

DrawingWithUnusedLeft ==
    /\ op = "create_ticket"
    /\ pc = "generate"
    /\ \E n \in DrawSet : ~ticket_exists(TicketNumber(gen.type, n))

\* C30: create_ticket eventually returns (a ticket number, or a failure
\* value) on every call: the re-draw loop of generate_ticket_number ends
\* under fair random choice whenever a number of the requested type is
\* unused, and the call then returns.
C30_CreateTicketReturns ==
    DrawingWithUnusedLeft ~> (op = "create_ticket" /\ pc = "idle" /\ outcome = "returned")

\* what does hold of the loop: under fair random choice the call ends, by
\* returning or by the exception of a failed existence check
C30_CreateTicketEnds ==
    DrawingWithUnusedLeft ~> (op = "create_ticket" /\ pc = "idle")

\* there is no attempt limit: the loop is left only with a number that was
\* not in use, or by the exception of a failed existence check
C30_LeftWithUnusedNumber ==
    (op = "create_ticket" /\ pc # "generate") =>
        IF outcome = "raised"
        THEN dbFaults = {"exists"} /\ gen.number = None /\ tickets = tickets0
        ELSE gen.number # None /\ gen.number \notin Numbers(tickets0)

====
